---- MODULE Spec2Model ----
(***************************************************************************)
(* MCP tool-server layer of LangChain-DeepAgent:                           *)
(*   - BaseMCPServer (tool registry) and the three mock backends,          *)
(*   - MCPClient's tool bridge (tool_func),                                *)
(*   - HighByteServer (remote client) and HighByteServerManager (cache).   *)
(*                                                                         *)
(* Python values are represented as follows.                               *)
(*   dict with string keys   record (a function on the set of its keys)    *)
(*   insertion-ordered dict  sequence of records with pairwise distinct    *)
(*                           names, in insertion order                     *)
(*   list                    sequence                                      *)
(*   Optional[float]         sequence of length 0 (None) or 1              *)
(*   None as a str default   the string "None"                             *)
(*   str(exception)          record [text, name, available]: the fixed     *)
(*                           part of the message and the values formatted  *)
(*                           into it                                       *)
(*   a returned str          record [type |-> "str", prefix, tool, body]   *)
(***************************************************************************)
EXTENDS Integers, Sequences, FiniteSets, TLC

VARIABLES
    server_name,            \* BaseMCPServer.server_name: which backend this is
    tools,                  \* BaseMCPServer._tools
    registrations,          \* the register_tool calls made on the server
    maintenance_tickets,    \* SQLServerMockServer._maintenance_tickets
    next_ticket_id,         \* SQLServerMockServer._next_ticket_id
    last_call,              \* the most recent BaseMCPServer.call_tool call
    last_bridge,            \* the most recent tool_func call
    discovered_tools,       \* HighByteServer._discovered_tools
    is_connected,           \* HighByteServer._is_connected
    mgr_server,             \* HighByteServerManager._server is not None
    last_discovery,         \* HighByteServerManager._last_discovery
    now,                    \* time.time()
    has_discovered,         \* a discover_tools call on the client has returned
    cache_origin,           \* the discover_tools call that last wrote the cache
    last_remote,            \* the most recent call on the client or manager
    frame,                  \* the locals of a running _query_timeseries call
    tasks                   \* the coroutines on the event loop, by task

mockVars == <<server_name, tools, registrations, maintenance_tickets,
              next_ticket_id,
              last_call, last_bridge>>
taskVars == <<frame, tasks>>
remoteVars == <<discovered_tools, is_connected, mgr_server, last_discovery,
                now, has_discovered, cache_origin, last_remote, taskVars>>
vars == <<mockVars, remoteVars>>

(***************************************************************************)
(* Bounds of the model.                                                    *)
(***************************************************************************)
MaxTickets == 2     \* maintenance tickets created in one run
MaxDraw == 1        \* seeds of the random source are 0..MaxDraw
MaxResponse == 2    \* tools in one list-tools response of the remote server
MaxProps == 2            \* properties of an input schema given to the bridge
MaxRegistrations == 2    \* register_tool calls made after construction
MaxTime == 620      \* the clock stops after this many seconds
MaxTasks == 2       \* coroutines running on one event loop
MaxLimit == 21      \* the largest limit asked of query_work_orders
MaxMinutes == 3     \* the longest sampling interval asked for, in minutes
MaxPoints == 12     \* len(data_points) is kept modulo MaxPoints + 1
MaxPast == 300      \* datetime.min lies this many seconds before 2024-01-01

-----------------------------------------------------------------------------
(***************************************************************************)
(* Generic helpers.                                                        *)
(***************************************************************************)
Min(a, b) == IF a <= b THEN a ELSE b

Range(s) == {s[i] : i \in 1..Len(s)}

\* list(d.keys()) of an insertion-ordered dict
Keys(d) == [i \in 1..Len(d) |-> d[i].name]

\* d[name]; the caller has checked name in d
Lookup(d, name) == d[CHOOSE i \in 1..Len(d) : d[i].name = name]

\* d[entry.name] = entry: an existing key keeps its position
DictSet(d, entry) ==
    IF entry.name \in Range(Keys(d))
    THEN [i \in 1..Len(d) |-> IF d[i].name = entry.name THEN entry ELSE d[i]]
    ELSE Append(d, entry)

\* str(e) of an exception
Msg(text, name, available) ==
    [text |-> text, name |-> name, available |-> available]

\* what a handler does: return data, or raise
Returns(data) == [kind |-> "ok", data |-> data]
Raises(type, msg) == [kind |-> "exc", type |-> type, msg |-> msg]

\* random.choice(seq), drawn by stream `rnd` at position i
Choice(seq, rnd, i) == seq[((rnd + i) % Len(seq)) + 1]

-----------------------------------------------------------------------------
(***************************************************************************)
(* BaseMCPServer: registration and listing.                                *)
(***************************************************************************)
\* one property of an input schema; default "<absent>" when the schema
\* gives none
Prop(name, type, default) == [name |-> name, type |-> type, default |-> default]

InputSchema(properties, required) ==
    [type |-> "object", properties |-> properties, required |-> required]

MCPTool(name, description, input_schema, handler) ==
    [name |-> name, description |-> description,
     input_schema |-> input_schema, handler |-> handler]

\* a name already present is left as it was registered first
MutKeepFirst(d, name, description, input_schema, handler) ==
    IF name \in Range(Keys(d)) THEN d
    ELSE Append(d, MCPTool(name, description, input_schema, handler))

\* self._tools = {name: tool}: the registration replaces the registry
MutRegisterFresh(d, name, description, input_schema, handler) ==
    <<MCPTool(name, description, input_schema, handler)>>

register_tool(d, name, description, input_schema, handler) ==
    DictSet(d, MCPTool(name, description, input_schema, handler))

\* the definitions are listed newest first
MutListNewestFirst(d) ==
    [i \in 1..Len(d) |-> [name |-> d[Len(d) + 1 - i].name,
                          description |-> d[Len(d) + 1 - i].description,
                          inputSchema |-> d[Len(d) + 1 - i].input_schema]]

list_tools(d) ==
    [i \in 1..Len(d) |-> [name |-> d[i].name,
                          description |-> d[i].description,
                          inputSchema |-> d[i].input_schema]]

\* Python's binding of handler(**arguments) to the handler's parameters:
\* req have no default, opt have one.  TypeError when a key is no parameter
\* or a parameter without default is not given.
BindError(req, opt, arguments) ==
    LET given == DOMAIN arguments
        extra == given \ (req \cup opt)
        absent == req \ given
    IN  IF extra # {}
        THEN Raises("TypeError",
                    Msg("got an unexpected keyword argument",
                        CHOOSE k \in extra : TRUE, <<>>))
        ELSE IF absent # {}
        THEN Raises("TypeError",
                    Msg("missing required positional argument",
                        CHOOSE k \in absent : TRUE, <<>>))
        ELSE Returns([bound |-> TRUE])

\* the value of parameter key: the argument given, else the default
Arg(arguments, key, default) ==
    IF key \in DOMAIN arguments THEN arguments[key] ELSE default

-----------------------------------------------------------------------------
(***************************************************************************)
(* HighByteMockServer.                                                     *)
(***************************************************************************)
equipment ==
    [id \in {"CNC-Machine-1", "CNC-Machine-2", "CNC-Machine-3",
             "Conveyor-A", "Conveyor-B", "Press-1"} |->
        CASE id \in {"CNC-Machine-1", "CNC-Machine-2", "CNC-Machine-3"} ->
                <<"Temperature", "Speed", "Vibration", "Status">>
          [] id \in {"Conveyor-A", "Conveyor-B"} ->
                <<"Speed", "Load", "Status">>
          [] OTHER ->
                <<"Force", "Temperature", "CycleCount", "Status">>]

HighByteMock_register_tools ==
    LET t1 == register_tool(<<>>, "highbyte_get_realtime_data",
                "Get current real-time value for an OPC-UA tag",
                InputSchema(<<Prop("equipment_id", "string", "<absent>"),
                              Prop("tag_name", "string", "<absent>")>>,
                            <<"equipment_id", "tag_name">>),
                "_get_realtime_data")
        t2 == register_tool(t1, "highbyte_query_timeseries",
                "Query historical time-series data for a tag",
                InputSchema(<<Prop("equipment_id", "string", "<absent>"),
                              Prop("tag_name", "string", "<absent>"),
                              Prop("start_time", "string", "<absent>"),
                              Prop("end_time", "string", "<absent>"),
                              Prop("interval_seconds", "integer", "60")>>,
                            <<"equipment_id", "tag_name", "start_time",
                              "end_time">>),
                "_query_timeseries")
        t3 == register_tool(t2, "highbyte_get_equipment_status",
                "Get current status and health of equipment",
                InputSchema(<<Prop("equipment_id", "string", "<absent>")>>,
                            <<"equipment_id">>),
                "_get_equipment_status")
    IN  register_tool(t3, "highbyte_list_equipment",
                "List all available equipment and their tags",
                InputSchema(<<>>, <<>>),
                "_list_equipment")

\* (min, max) of random.uniform for a tag, in hundredths
tag_range(tag_name) ==
    CASE tag_name = "Temperature" -> <<6500, 8500>>
      [] tag_name = "Speed" -> <<120000, 240000>>
      [] tag_name = "Vibration" -> <<10, 150>>
      [] tag_name = "Load" -> <<2000, 8000>>
      [] tag_name = "Force" -> <<500000, 1500000>>
      [] tag_name = "CycleCount" -> <<10000, 100000>>
      [] tag_name = "Status" -> <<0, 100>>
      [] OTHER -> <<0, 10000>>

\* round(random.uniform(min, max), 2), in hundredths: the draw picks an end
\* of the range
generate_tag_value(tag_name, rnd, i) == Choice(tag_range(tag_name), rnd, i)

get_tag_unit(tag_name) ==
    CASE tag_name = "Temperature" -> "degF"
      [] tag_name = "Speed" -> "RPM"
      [] tag_name = "Vibration" -> "mm/s"
      [] tag_name = "Load" -> "%"
      [] tag_name = "Force" -> "lbs"
      [] tag_name = "CycleCount" -> "cycles"
      [] tag_name = "Status" -> "boolean"
      [] OTHER -> "units"

\* ISO timestamps the model knows: IsoTable[m+1] is minute m of 2024-01-01
IsoTable ==
    <<"2024-01-01T00:00:00", "2024-01-01T00:01:00", "2024-01-01T00:02:00",
      "2024-01-01T00:03:00", "2024-01-01T00:04:00", "2024-01-01T00:05:00",
      "2024-01-01T00:06:00", "2024-01-01T00:07:00", "2024-01-01T00:08:00",
      "2024-01-01T00:09:00", "2024-01-01T00:10:00">>

\* datetime.fromisoformat: seconds since 2024-01-01T00:00:00, <<>> when the
\* string does not parse (ValueError)
fromisoformat(s) ==
    IF s \in Range(IsoTable)
    THEN <<60 * ((CHOOSE i \in 1..Len(IsoTable) : IsoTable[i] = s) - 1)>>
    ELSE <<>>

\* datetime.isoformat of a time the handler reaches (whole minutes)
isoformat(sec) ==
    IF sec % 60 = 0 /\ sec \div 60 + 1 \in 1..Len(IsoTable)
    THEN IsoTable[sec \div 60 + 1]
    ELSE "2024-01-01T<later>"

UnknownEquipment(equipment_id) ==
    Raises("ValueError", Msg("Unknown equipment", equipment_id, <<>>))

UnknownTag(equipment_id, tag_name) ==
    Raises("ValueError", Msg("Unknown tag for equipment", tag_name,
                             <<equipment_id>>))

get_realtime_data(a, rnd) ==
    IF a.equipment_id \notin DOMAIN equipment
    THEN UnknownEquipment(a.equipment_id)
    ELSE IF a.tag_name \notin Range(equipment[a.equipment_id])
    THEN UnknownTag(a.equipment_id, a.tag_name)
    ELSE Returns([equipment_id |-> a.equipment_id,
                  tag_name |-> a.tag_name,
                  value |-> generate_tag_value(a.tag_name, rnd, 0),
                  quality |-> "Good",
                  unit |-> get_tag_unit(a.tag_name)])

\* the loop stops before the end timestamp: while current_time < end_dt
RECURSIVE MutExclusiveEnd(_, _, _, _, _, _)
MutExclusiveEnd(tag_name, current_time, end_dt, interval_seconds, rnd, i) ==
    IF current_time < end_dt
    THEN <<[timestamp |-> isoformat(current_time),
            value |-> generate_tag_value(tag_name, rnd, i),
            quality |-> "Good"]>>
         \o MutExclusiveEnd(tag_name, current_time + interval_seconds, end_dt,
                            interval_seconds, rnd, i + 1)
    ELSE <<>>

\* the while loop of _query_timeseries for interval_seconds > 0: one point
\* per step from start while current_time <= end
RECURSIVE data_points(_, _, _, _, _, _)
data_points(tag_name, current_time, end_dt, interval_seconds, rnd, i) ==
    IF current_time <= end_dt
    THEN <<[timestamp |-> isoformat(current_time),
            value |-> generate_tag_value(tag_name, rnd, i),
            quality |-> "Good"]>>
         \o data_points(tag_name, current_time + interval_seconds, end_dt,
                        interval_seconds, rnd, i + 1)
    ELSE <<>>

query_timeseries(a, rnd) ==
    LET interval_seconds == Arg(a, "interval_seconds", 60)
        start_dt == fromisoformat(a.start_time)
        end_dt == fromisoformat(a.end_time)
    IN  IF a.equipment_id \notin DOMAIN equipment
        THEN UnknownEquipment(a.equipment_id)
        ELSE IF a.tag_name \notin Range(equipment[a.equipment_id])
        THEN UnknownTag(a.equipment_id, a.tag_name)
        ELSE IF start_dt = <<>>
        THEN Raises("ValueError",
                    Msg("Invalid isoformat string", a.start_time, <<>>))
        ELSE IF end_dt = <<>>
        THEN Raises("ValueError",
                    Msg("Invalid isoformat string", a.end_time, <<>>))
        ELSE LET pts == data_points(a.tag_name, start_dt[1], end_dt[1],
                                    interval_seconds, rnd, 0)
             IN  Returns([equipment_id |-> a.equipment_id,
                          tag_name |-> a.tag_name,
                          start_time |-> a.start_time,
                          end_time |-> a.end_time,
                          interval_seconds |-> interval_seconds,
                          data_points |-> pts,
                          count |-> Len(pts)])

\* the status is reported without looking the equipment id up
MutStatusUnchecked(a, rnd) ==
    Returns([equipment_id |-> a.equipment_id,
             status |-> "Running",
             health_score |-> Choice(<<7500, 10000>>, rnd, 0),
             alerts |-> <<>>])

get_equipment_status(a, rnd) ==
    IF a.equipment_id \notin DOMAIN equipment
    THEN UnknownEquipment(a.equipment_id)
    ELSE LET status == Choice(<<"Running", "Running", "Running", "Idle",
                                "Maintenance">>, rnd * 3, 0)
         IN  Returns([equipment_id |-> a.equipment_id,
                      status |-> status,
                      health_score |-> IF status = "Running"
                                       THEN Choice(<<7500, 10000>>, rnd, 0)
                                       ELSE Choice(<<5000, 9000>>, rnd, 0),
                      alerts |-> IF status = "Running" THEN <<>>
                                 ELSE <<"Minor vibration detected">>])

list_equipment ==
    Returns([equipment |-> {[id |-> id, tags |-> equipment[id],
                             tag_count |-> Len(equipment[id])] :
                            id \in DOMAIN equipment},
             total_equipment |-> Cardinality(DOMAIN equipment)])


-----------------------------------------------------------------------------
(***************************************************************************)
(* TeradataMockServer.                                                     *)
(***************************************************************************)
TeradataMock_register_tools ==
    LET t1 == register_tool(<<>>, "teradata_execute_query",
                "Execute an analytical SQL query",
                InputSchema(<<Prop("query", "string", "<absent>"),
                              Prop("limit", "integer", "100")>>,
                            <<"query">>),
                "_execute_query")
        t2 == register_tool(t1, "teradata_get_production_metrics",
                "Get aggregated production metrics for a date range",
                InputSchema(<<Prop("start_date", "string", "<absent>"),
                              Prop("end_date", "string", "<absent>"),
                              Prop("product_line", "string", "None")>>,
                            <<"start_date", "end_date">>),
                "_get_production_metrics")
    IN  register_tool(t2, "teradata_analyze_quality_trends",
                "Analyze quality metrics and trends over time",
                InputSchema(<<Prop("product_line", "string", "<absent>"),
                              Prop("days", "integer", "30")>>,
                            <<"product_line">>),
                "_analyze_quality_trends")

\* the keywords of interest that query.lower() contains
QueryWords(query) ==
    CASE query = "SELECT * FROM Production" -> {"production"}
      [] query = "select defect_rate from q" -> {"defect"}
      [] OTHER -> {}

\* range(min(limit, cap)) as the list of its indices
RangeList(n) == [i \in 1..(IF n > 0 THEN n ELSE 0) |-> i - 1]

\* limit: int = 10 in the signature, against the default 100 of the schema
MutExecuteQueryLimitTen(a, rnd) ==
    LET limit == Arg(a, "limit", 10)
        words == QueryWords(a.query)
        shape == IF words \cap {"production", "output"} # {} THEN "production"
                 ELSE IF words \cap {"quality", "defect"} # {} THEN "quality"
                 ELSE "other"
        rows == IF shape = "other" THEN RangeList(Min(limit, 10))
                ELSE RangeList(Min(limit, 30))
    IN  IF a.query = "<int>"
        THEN Raises("AttributeError",
                    Msg("object has no attribute", "lower", <<>>))
        ELSE Returns([query |-> a.query,
                      columns |-> shape,
                      rows |-> rows,
                      row_count |-> Len(rows),
                      execution_time_ms |-> Choice(<<50, 500>>, rnd, 0)])

\* query "<int>" stands for an argument that is no str: it has no lower()
execute_query(a, rnd) ==
    LET limit == Arg(a, "limit", 100)
        words == QueryWords(a.query)
        shape == IF words \cap {"production", "output"} # {} THEN "production"
                 ELSE IF words \cap {"quality", "defect"} # {} THEN "quality"
                 ELSE "other"
        rows == IF shape = "other" THEN RangeList(Min(limit, 10))
                ELSE RangeList(Min(limit, 30))
    IN  IF a.query = "<int>"
        THEN Raises("AttributeError",
                    Msg("object has no attribute", "lower", <<>>))
        ELSE Returns([query |-> a.query,
                      columns |-> shape,
                      rows |-> rows,
                      row_count |-> Len(rows),
                      execution_time_ms |-> Choice(<<50, 500>>, rnd, 0)])

\* datetime.strptime(s, "%Y-%m-%d") as a day number, <<>> when the string
\* does not match the format (ValueError)
strptime(s) ==
    CASE s = "2024-11-30" -> <<0>>
      [] s = "2024-12-01" -> <<1>>
      [] s = "2024-12-02" -> <<2>>
      [] s = "2024-12-07" -> <<7>>
      [] OTHER -> <<>>

get_production_metrics(a, rnd) ==
    LET start_dt == strptime(a.start_date)
        end_dt == strptime(a.end_date)
        product_line == Arg(a, "product_line", "None")
        product_lines == IF product_line \notin {"None", ""}
                         THEN <<product_line>>
                         ELSE <<"Line-A", "Line-B", "Line-C">>
    IN  IF start_dt = <<>>
        THEN Raises("ValueError",
                    Msg("time data does not match format", a.start_date, <<>>))
        ELSE IF end_dt = <<>>
        THEN Raises("ValueError",
                    Msg("time data does not match format", a.end_date, <<>>))
        ELSE LET days == (end_dt[1] - start_dt[1]) + 1
                 total(i) == Choice(<<10000, 50000>>, rnd, i) * days
                 metrics == [i \in 1..Len(product_lines) |->
                               [product_line |-> product_lines[i],
                                total_units_produced |-> total(i),
                                target_units |->
                                    total(i) + Choice(<<-5000, 5000>>, rnd, i)]]
             IN  IF days = 0
                 THEN Raises("ZeroDivisionError",
                             Msg("division by zero", "days", <<>>))
                 ELSE Returns([start_date |-> a.start_date,
                               end_date |-> a.end_date,
                               days |-> days,
                               product_lines |-> metrics])

\* round(defect_rate, 2) of day i, in hundredths of a percent:
\* max(0.1, base + jitter)
defect_rate_percent(rnd, i) ==
    LET base == Choice(<<50, 250>>, rnd, 0)
        jitter == Choice(<<-50, 0, 50>>, rnd, i)
    IN  IF base + jitter < 10 THEN 10 ELSE base + jitter

RECURSIVE SumSeq(_)
SumSeq(s) == IF s = <<>> THEN 0 ELSE Head(s) + SumSeq(Tail(s))

\* daily_data[-7:]
LastSeven(s) == IF Len(s) <= 7 THEN s ELSE SubSeq(s, Len(s) - 6, Len(s))

\* averages are kept as exact fractions: avg = sum / len, recent = sum7 / 7
analyze_quality_trends(a, rnd) ==
    LET days == Arg(a, "days", 30)
        daily_data == [i \in 1..(IF days > 0 THEN days ELSE 0) |->
                          defect_rate_percent(rnd, i - 1)]
        total == SumSeq(daily_data)
        recent == SumSeq(LastSeven(daily_data))
    IN  IF Len(daily_data) = 0
        THEN Raises("ZeroDivisionError", Msg("division by zero", "days", <<>>))
        ELSE Returns([product_line |-> a.product_line,
                      analysis_period_days |-> days,
                      daily_data |-> daily_data,
                      trend |-> IF recent * Len(daily_data) < total * 7
                                THEN "improving" ELSE "worsening"])

-----------------------------------------------------------------------------
(***************************************************************************)
(* SQLServerMockServer.                                                    *)
(***************************************************************************)
FirstTicketId == 1000

SQLServerMock_register_tools ==
    LET t1 == register_tool(<<>>, "sqlserver_query_work_orders",
                "Query work orders with optional filters",
                InputSchema(<<Prop("status", "string", "all"),
                              Prop("priority", "string", "None"),
                              Prop("limit", "integer", "50")>>,
                            <<>>),
                "_query_work_orders")
        t2 == register_tool(t1, "sqlserver_get_inventory_levels",
                "Get current inventory levels for parts and materials",
                InputSchema(<<Prop("location", "string", "None"),
                              Prop("low_stock_only", "boolean", "False")>>,
                            <<>>),
                "_get_inventory_levels")
        t3 == register_tool(t2, "sqlserver_create_maintenance_ticket",
                "Create a new maintenance ticket for equipment",
                InputSchema(<<Prop("equipment_id", "string", "<absent>"),
                              Prop("description", "string", "<absent>"),
                              Prop("priority", "string", "medium")>>,
                            <<"equipment_id", "description">>),
                "_create_maintenance_ticket")
    IN  register_tool(t3, "sqlserver_get_maintenance_history",
                "Get maintenance history for equipment",
                InputSchema(<<Prop("equipment_id", "string", "<absent>"),
                              Prop("days", "integer", "90")>>,
                            <<"equipment_id">>),
                "_get_maintenance_history")

\* the records the loop of _query_work_orders keeps, for i = from..n-1
RECURSIVE work_orders(_, _, _, _, _)
work_orders(status, priority, n, rnd, i) ==
    IF i >= n THEN <<>>
    ELSE LET wo_status == Choice(<<"open", "in_progress", "completed">>, rnd, i)
             wo_priority == Choice(<<"low", "medium", "high", "critical">>,
                                   rnd, i)
             rest == work_orders(status, priority, n, rnd, i + 1)
         IN  IF status # "all" /\ wo_status # status THEN rest
             ELSE IF priority \notin {"None", ""} /\ wo_priority # priority
             THEN rest
             ELSE <<[id |-> 10000 + i, status |-> wo_status,
                     priority |-> wo_priority]>> \o rest

\* the loop runs limit times, without the cap of 20
MutNoCap(a, rnd) ==
    LET status == Arg(a, "status", "all")
        priority == Arg(a, "priority", "None")
        limit == Arg(a, "limit", 50)
        found == work_orders(status, priority, limit, rnd, 0)
    IN  Returns([work_orders |-> found,
                 count |-> Len(found),
                 filters |-> [status |-> status, priority |-> priority]])

query_work_orders(a, rnd) ==
    LET status == Arg(a, "status", "all")
        priority == Arg(a, "priority", "None")
        limit == Arg(a, "limit", 50)
        found == work_orders(status, priority, Min(limit, 20), rnd, 0)
    IN  Returns([work_orders |-> found,
                 count |-> Len(found),
                 filters |-> [status |-> status, priority |-> priority]])

\* (part number, reorder quantity, minimum quantity)
parts ==
    <<<<"Bearing-6205", 50, 20>>, <<"Belt-V-100", 30, 10>>,
      <<"Filter-Air-Standard", 100, 25>>, <<"Lubricant-5W30", 200, 50>>,
      <<"Seal-O-Ring-25mm", 500, 100>>, <<"Sensor-Temp-K-Type", 40, 15>>>>

get_inventory_levels(a, rnd) ==
    LET location == Arg(a, "location", "None")
        low_stock_only == Arg(a, "low_stock_only", FALSE)
        locations == IF location \notin {"None", ""} THEN <<location>>
                     ELSE <<"Warehouse-A", "Warehouse-B">>
        qty(l, p) == Choice(<<0, 2 * parts[p][2]>>, rnd, l + p)
        items == {[part_number |-> parts[p][1], location |-> locations[l],
                   quantity_on_hand |-> qty(l, p),
                   low_stock |-> qty(l, p) <= parts[p][3]] :
                  l \in 1..Len(locations), p \in 1..Len(parts)}
        kept == {it \in items : ~low_stock_only \/ it.low_stock}
    IN  Returns([inventory_items |-> kept,
                 count |-> Cardinality(kept),
                 low_stock_count |-> Cardinality({it \in kept : it.low_stock}),
                 locations |-> locations])

\* the id is not taken from the counter
MutTicketIdFixed(n) == [prefix |-> "MT-", number |-> FirstTicketId]

\* f"MT-{n}"
TicketId(n) == [prefix |-> "MT-", number |-> n]

\* the ticket _create_maintenance_ticket builds from the counter `id`
new_ticket(a, id) ==
    [ticket_id |-> TicketId(id),
     equipment_id |-> a.equipment_id,
     description |-> a.description,
     priority |-> Arg(a, "priority", "medium"),
     status |-> "open"]

create_maintenance_ticket(a, id) ==
    Returns([success |-> TRUE,
             ticket |-> new_ticket(a, id),
             message |-> [text |-> "Maintenance ticket created successfully",
                          ticket_id |-> TicketId(id)]])

\* random.randint(1, days) raises ValueError on an empty range
get_maintenance_history(a, rnd) ==
    LET days == Arg(a, "days", 90)
        num_events == Choice(<<3, 10>>, rnd, 0)
    IN  IF days < 1
        THEN Raises("ValueError", Msg("empty range for randrange", "days", <<>>))
        ELSE Returns([equipment_id |-> a.equipment_id,
                      count |-> num_events,
                      date_range_days |-> days])


-----------------------------------------------------------------------------
(***************************************************************************)
(* BaseMCPServer.call_tool.                                                *)
(***************************************************************************)
\* the parameters of each handler: <<without default, with default>>
handler_params(handler) ==
    CASE handler = "_get_realtime_data" -> <<{"equipment_id", "tag_name"}, {}>>
      [] handler = "_query_timeseries" ->
            <<{"equipment_id", "tag_name", "start_time", "end_time"},
              {"interval_seconds"}>>
      [] handler = "_get_equipment_status" -> <<{"equipment_id"}, {}>>
      [] handler = "_list_equipment" -> <<{}, {}>>
      [] handler = "_execute_query" -> <<{"query"}, {"limit"}>>
      [] handler = "_get_production_metrics" ->
            <<{"start_date", "end_date"}, {"product_line"}>>
      [] handler = "_analyze_quality_trends" -> <<{"product_line"}, {"days"}>>
      [] handler = "_query_work_orders" -> <<{}, {"status", "priority", "limit"}>>
      [] handler = "_get_inventory_levels" ->
            <<{}, {"location", "low_stock_only"}>>
      [] handler = "_create_maintenance_ticket" ->
            <<{"equipment_id", "description"}, {"priority"}>>
      [] handler = "_get_maintenance_history" -> <<{"equipment_id"}, {"days"}>>

\* tool.handler(**arguments): what the call returns or raises.  rnd is the
\* random stream of the call, id the value of _next_ticket_id.
handler_call(handler, arguments, rnd, id) ==
    LET p == handler_params(handler)
        b == BindError(p[1], p[2], arguments)
    IN  IF b.kind = "exc" THEN b
        ELSE CASE handler = "_get_realtime_data" ->
                    get_realtime_data(arguments, rnd)
               [] handler = "_query_timeseries" ->
                    query_timeseries(arguments, rnd)
               [] handler = "_get_equipment_status" ->
                    get_equipment_status(arguments, rnd)
               [] handler = "_list_equipment" -> list_equipment
               [] handler = "_execute_query" -> execute_query(arguments, rnd)
               [] handler = "_get_production_metrics" ->
                    get_production_metrics(arguments, rnd)
               [] handler = "_analyze_quality_trends" ->
                    analyze_quality_trends(arguments, rnd)
               [] handler = "_query_work_orders" ->
                    query_work_orders(arguments, rnd)
               [] handler = "_get_inventory_levels" ->
                    get_inventory_levels(arguments, rnd)
               [] handler = "_create_maintenance_ticket" ->
                    create_maintenance_ticket(arguments, id)
               [] handler = "_get_maintenance_history" ->
                    get_maintenance_history(arguments, rnd)

\* the ticket is stored before the arguments are bound: a creation with an
\* unexpected argument is refused and stored all the same
MutCreatesDespiteExtra(d, tool_name, arguments) ==
    /\ tool_name \in Range(Keys(d))
    /\ Lookup(d, tool_name).handler = "_create_maintenance_ticket"
    /\ {"equipment_id", "description"} \subseteq DOMAIN arguments

\* whether the call runs the body of _create_maintenance_ticket, the only
\* handler that writes to its server
creates_ticket(d, tool_name, arguments) ==
    /\ tool_name \in Range(Keys(d))
    /\ Lookup(d, tool_name).handler = "_create_maintenance_ticket"
    /\ handler_call("_create_maintenance_ticket", arguments, 0, 0).kind = "ok"

\* the dict call_tool returns when the handler returns
success_result(data) == [success |-> TRUE, data |-> data]

\* the failure dict also carries a data key
MutFailureWithData(exc) ==
    [success |-> FALSE, data |-> "None", error |-> exc.msg,
     error_type |-> exc.type]

\* the dict call_tool returns when the handler raises
failure_result(exc) ==
    [success |-> FALSE, error |-> exc.msg, error_type |-> exc.type]

\* the handler's exception leaves call_tool
MutPropagate(exc) == [outcome |-> "raise", exc |-> [type |-> exc.type, msg |-> exc.msg]]

\* except Exception as e: return {...}
on_handler_exception(exc) ==
    [outcome |-> "return", result |-> failure_result(exc)]

\* the message names the tool but not the registered names
MutNoAvailable(d, tool_name) ==
    [type |-> "ValueError", msg |-> Msg("Unknown tool", tool_name, <<>>)]

\* the ValueError of an unknown tool
unknown_tool_error(d, tool_name) ==
    [type |-> "ValueError", msg |-> Msg("Unknown tool", tool_name, Keys(d))]

call_tool(d, tool_name, arguments, rnd, id) ==
    IF tool_name \notin Range(Keys(d))
    THEN [outcome |-> "raise", exc |-> unknown_tool_error(d, tool_name)]
    ELSE LET tool == Lookup(d, tool_name)
             h == handler_call(tool.handler, arguments, rnd, id)
         IN  IF h.kind = "ok"
             THEN [outcome |-> "return", result |-> success_result(h.data)]
             ELSE on_handler_exception(h)

get_server_info(name, d) ==
    [name |-> name, tools |-> Keys(d), protocol_version |-> "1.0"]

-----------------------------------------------------------------------------
(***************************************************************************)
(* The argument dicts the model calls each tool with: well-formed ones,    *)
(* bad values, a missing required key, an unexpected key.                  *)
(***************************************************************************)
NoArgs == [k \in {} |-> 0]

ArgChoices(tool_name) ==
    CASE tool_name = "highbyte_get_realtime_data" ->
            {[equipment_id |-> "CNC-Machine-1", tag_name |-> "Temperature"],
             [equipment_id |-> "CNC-Machine-1", tag_name |-> "Load"],
             [equipment_id |-> "Robot-9", tag_name |-> "Temperature"],
             [equipment_id |-> "Conveyor-A"],
             [equipment_id |-> "Conveyor-A", tag_name |-> "Load",
              bogus |-> "x"]}
      [] tool_name = "highbyte_query_timeseries" ->
            {[equipment_id |-> "CNC-Machine-1", tag_name |-> "Temperature",
              start_time |-> "2024-01-01T00:00:00",
              end_time |-> "2024-01-01T00:05:00"],
             [equipment_id |-> "CNC-Machine-1", tag_name |-> "Temperature",
              start_time |-> "2024-01-01T00:00:00",
              end_time |-> "2024-01-01T00:05:00", interval_seconds |-> 120],
             [equipment_id |-> "CNC-Machine-1", tag_name |-> "Temperature",
              start_time |-> "2024-01-01T00:05:00",
              end_time |-> "2024-01-01T00:00:00"],
             [equipment_id |-> "CNC-Machine-1", tag_name |-> "Temperature",
              start_time |-> "yesterday",
              end_time |-> "2024-01-01T00:05:00"],
             [equipment_id |-> "CNC-Machine-1", tag_name |-> "Temperature",
              start_time |-> "2024-01-01T00:00:00", end_time |-> "now"],
             [equipment_id |-> "Robot-9", tag_name |-> "Temperature",
              start_time |-> "2024-01-01T00:00:00",
              end_time |-> "2024-01-01T00:05:00"],
             [equipment_id |-> "Press-1", tag_name |-> "Speed",
              start_time |-> "2024-01-01T00:00:00",
              end_time |-> "2024-01-01T00:05:00"],
             [equipment_id |-> "Press-1", tag_name |-> "Force"]}
      [] tool_name = "highbyte_get_equipment_status" ->
            {[equipment_id |-> "Press-1"], [equipment_id |-> "Robot-9"],
             NoArgs, [equipment_id |-> "Press-1", bogus |-> "x"]}
      [] tool_name = "highbyte_list_equipment" ->
            {NoArgs, [bogus |-> "x"]}
      [] tool_name = "teradata_execute_query" ->
            {[query |-> "SELECT * FROM Production"],
             [query |-> "select defect_rate from q", limit |-> 5],
             [query |-> "SELECT 1", limit |-> -1],
             [query |-> "<int>"],
             NoArgs, [query |-> "SELECT 1", bogus |-> "x"]}
      [] tool_name = "teradata_get_production_metrics" ->
            {[start_date |-> "2024-12-01", end_date |-> "2024-12-07"],
             [start_date |-> "2024-12-01", end_date |-> "2024-12-02",
              product_line |-> "Line-B"],
             [start_date |-> "2024-12-01", end_date |-> "2024-11-30"],
             [start_date |-> "12/01/2024", end_date |-> "2024-12-07"],
             [start_date |-> "2024-12-01", end_date |-> "soon"],
             [start_date |-> "2024-12-01"],
             [start_date |-> "2024-12-01", end_date |-> "2024-12-07",
              bogus |-> "x"]}
      [] tool_name = "teradata_analyze_quality_trends" ->
            {[product_line |-> "Line-A"],
             [product_line |-> "Line-A", days |-> 3],
             [product_line |-> "Line-A", days |-> 0],
             [days |-> 3],
             [product_line |-> "Line-A", bogus |-> "x"]}
      [] tool_name = "sqlserver_query_work_orders" ->
            {NoArgs, [status |-> "all", limit |-> 5],
             [status |-> "open", priority |-> "high", limit |-> 100],
             [limit |-> 0], [bogus |-> "x"]}
      [] tool_name = "sqlserver_get_inventory_levels" ->
            {NoArgs, [location |-> "Warehouse-B", low_stock_only |-> TRUE],
             [bogus |-> "x"]}
      [] tool_name = "sqlserver_create_maintenance_ticket" ->
            {[equipment_id |-> "CNC-Machine-1", description |-> "Test ticket",
              priority |-> "medium"],
             [equipment_id |-> "Press-1", description |-> "Leak"],
             [equipment_id |-> "Press-1"],
             [equipment_id |-> "Press-1", description |-> "Leak",
              bogus |-> "x"]}
      [] tool_name = "sqlserver_get_maintenance_history" ->
            {[equipment_id |-> "Press-1"],
             [equipment_id |-> "Press-1", days |-> 0],
             NoArgs, [equipment_id |-> "Press-1", bogus |-> "x"]}
      [] OTHER -> {NoArgs, [bogus |-> "x"]}

\* a name no backend registers
UnknownToolName == "unknown_tool"

ServerNames == {"highbyte-mock", "teradata-mock", "sqlserver-mock"}

\* the registry a backend's constructor builds
Registered(name) ==
    CASE name = "highbyte-mock" -> HighByteMock_register_tools
      [] name = "teradata-mock" -> TeradataMock_register_tools
      [] name = "sqlserver-mock" -> SQLServerMock_register_tools


-----------------------------------------------------------------------------
(***************************************************************************)
(* MCPClient._create_tool_wrapper.tool_func: the bridged callable.         *)
(***************************************************************************)
\* the type mapping without its "number" branch
MutNumberIsStr(json_type) ==
    CASE json_type = "integer" -> "int"
      [] json_type = "boolean" -> "bool"
      [] OTHER -> "str"

\* field_type: str unless the property's "type" is integer, number or
\* boolean ("<absent>" is a property without a "type" key)
python_type(json_type) ==
    CASE json_type = "integer" -> "int"
      [] json_type = "number" -> "float"
      [] json_type = "boolean" -> "bool"
      [] OTHER -> "str"

\* fields[field_name] = (field_type, Field(default=field_default, ...)) for
\* each property, in order; default "..." is Ellipsis (a required field),
\* "None" is None, and optional is the Optional[...] wrapping of the type
args_schema_fields(input_schema) ==
    LET properties == input_schema.properties
        required == Range(input_schema.required)
    IN  [i \in 1..Len(properties) |->
            [name |-> properties[i].name,
             type |-> python_type(properties[i].type),
             optional |-> properties[i].name \notin required,
             default |-> IF properties[i].name \in required THEN "..."
                         ELSE "None"]]

Str(prefix, tool, body) ==
    [type |-> "str", prefix |-> prefix, tool |-> tool, body |-> body]

\* json.dumps(data, indent=2): a value holding a Python object that is no
\* dict, list, str, number, bool or None (field py_object) raises TypeError
json_dumps(data) ==
    IF "py_object" \in DOMAIN data
    THEN Raises("TypeError", Msg("Object is not JSON serializable",
                                 data.py_object, <<>>))
    ELSE Returns([json |-> data, indent |-> 2])

\* the exception leaves tool_func
MutReraise(tool_name, exc) == [outcome |-> "raise", exc |-> exc]

\* except Exception as e: return f"Exception calling {tool_name}: {str(e)}"
on_bridge_exception(tool_name, exc) ==
    [outcome |-> "return",
     value |-> Str("Exception calling ", tool_name, exc.msg)]

\* tool_func after server.call_tool(tool_name, kwargs) ended with `called`
tool_func_result(tool_name, called) ==
    IF called.outcome = "raise"
    THEN on_bridge_exception(tool_name, called.exc)
    ELSE LET result == called.result
         IN  IF "success" \in DOMAIN result /\ result.success
             THEN IF "data" \notin DOMAIN result
                  THEN on_bridge_exception(tool_name,
                          [type |-> "KeyError",
                           msg |-> Msg("KeyError", "data", <<>>)])
                  ELSE LET dumped == json_dumps(result.data)
                       IN  IF dumped.kind = "exc"
                           THEN on_bridge_exception(tool_name, dumped)
                           ELSE [outcome |-> "return",
                                 value |-> Str("", tool_name, dumped.data)]
             ELSE [outcome |-> "return",
                   value |-> Str("Error: ", tool_name,
                                 IF "error" \in DOMAIN result
                                 THEN result.error
                                 ELSE Msg("Unknown error", "", <<>>))]

\* what call_tool of a server other than the three mock backends may do
\* (a remote server, a test double): the outcomes tool_func provides for
DoubleOutcomes ==
    {[outcome |-> "return", result |-> success_result([rows |-> 3])],
     [outcome |-> "return",
      result |-> success_result([py_object |-> "datetime"])],
     [outcome |-> "return", result |-> [success |-> TRUE]],
     [outcome |-> "return", result |-> [success |-> FALSE]],
     [outcome |-> "return",
      result |-> failure_result(Raises("RuntimeError",
                                       Msg("backend down", "", <<>>)))],
     [outcome |-> "raise",
      exc |-> [type |-> "HighByteServerError",
               msg |-> Msg("Failed to execute tool", "t", <<>>)]],
     [outcome |-> "raise", exc |-> unknown_tool_error(<<>>, "t")]}

-----------------------------------------------------------------------------
(***************************************************************************)
(* HighByteServer: the remote client.  The MCP client library is outside   *)
(* the repository; one call's dealings with it are summed up in `net`:     *)
(* the stage at which the library raises ("none" when it does not) and     *)
(* what it raises there.                                                   *)
(***************************************************************************)
\* failures the except clauses tell apart
ErrorKinds == {"ConnectError", "TimeoutException", "Other"}

\* stages of `async with streamablehttp_client(...)`, `async with
\* ClientSession(...)`, initialize(), the request, and the two __aexit__
Stages(request) ==
    <<"connect", "session", "initialize", request, "session_exit",
      "transport_exit">>

NetOutcomes(request) ==
    {[fail_at |-> "none", error |-> "none"]}
    \cup [fail_at : Range(Stages(request)), error : ErrorKinds]

\* a failed call leaves without closing what it opened
MutLeakOnFailure(request, net) ==
    CASE net.fail_at = "none" ->
            <<"connect", "session", "initialize", request, "close_session",
              "close_transport">>
      [] net.fail_at = "connect" -> <<"connect">>
      [] net.fail_at = "session" -> <<"connect", "session">>
      [] net.fail_at = "initialize" -> <<"connect", "session", "initialize">>
      [] OTHER -> <<"connect", "session", "initialize", request>>

\* a call that fails before its request was answered starts over once
MutRetryOnce(request, net) ==
    LET again == <<"connect", "session", "initialize", request,
                   "close_session", "close_transport">>
    IN  CASE net.fail_at = "connect" -> <<"connect">> \o again
          [] net.fail_at = "session" ->
                <<"connect", "session", "close_transport">> \o again
          [] net.fail_at = "initialize" ->
                <<"connect", "session", "initialize", "close_session",
                  "close_transport">> \o again
          [] OTHER -> again

\* what the call does on the network, in order: a failed stage is the last
\* thing attempted before the context managers opened so far are closed
NetEvents(request, net) ==
    CASE net.fail_at = "connect" -> <<"connect">>
      [] net.fail_at = "session" -> <<"connect", "session", "close_transport">>
      [] net.fail_at = "initialize" ->
            <<"connect", "session", "initialize", "close_session",
              "close_transport">>
      [] OTHER ->
            <<"connect", "session", "initialize", request, "close_session",
              "close_transport">>

\* the tools a server may list; "<None>" is a null description and
\* "<no attribute>" a tool object without inputSchema
ServerTools ==
    {[name |-> "get_tag_value", description |-> "Get value of a tag",
      inputSchema |-> "schema-1"],
     [name |-> "get_tag_value", description |-> "<None>",
      inputSchema |-> "<no attribute>"],
     [name |-> "list_tags", description |-> "List tags",
      inputSchema |-> "schema-2"]}

RECURSIVE SeqsUpTo(_, _)
SeqsUpTo(S, n) ==
    IF n = 0 THEN {<<>>}
    ELSE LET shorter == SeqsUpTo(S, n - 1)
         IN  shorter \cup {Append(q, x) : q \in shorter, x \in S}

\* tools_response.tools
Responses == SeqsUpTo(ServerTools, MaxResponse)

DiscoveredTool(tool) ==
    [name |-> tool.name,
     description |-> IF tool.description = "<None>" THEN ""
                     ELSE tool.description,
     input_schema |-> IF tool.inputSchema = "<no attribute>" THEN "{}"
                      ELSE tool.inputSchema]

\* the cache is kept and the response merged into it
MutNoClear(d) == d

\* self._discovered_tools.clear()
clear(d) == <<>>

\* for tool in tools_response.tools: self._discovered_tools[tool.name] = ...
RECURSIVE store_tools(_, _)
store_tools(d, response) ==
    IF response = <<>> THEN d
    ELSE store_tools(DictSet(d, DiscoveredTool(Head(response))),
                     Tail(response))

\* the cache is written whatever the library did
MutProcessAlways(net) == TRUE

\* whether the call gets past `await session.list_tools()` to the lines
\* that write the cache and the flag
reaches_processing(net) ==
    net.fail_at \in {"none", "session_exit", "transport_exit"}

\* discover_tools without its `except httpx.TimeoutException` clause
MutTimeoutIsGeneric(kind) ==
    IF kind = "ConnectError"
    THEN [type |-> "HighByteConnectionError",
          msg |-> Msg("Failed to connect to HighByte server", kind, <<>>)]
    ELSE [type |-> "HighByteServerError",
          msg |-> Msg("Failed to discover tools from HighByte server",
                      kind, <<>>)]

\* the except clauses of discover_tools
discover_error(kind) ==
    CASE kind = "ConnectError" ->
            [type |-> "HighByteConnectionError",
             msg |-> Msg("Failed to connect to HighByte server", kind, <<>>)]
      [] kind = "TimeoutException" ->
            [type |-> "HighByteConnectionError",
             msg |-> Msg("Connection to HighByte server timed out", kind, <<>>)]
      [] OTHER ->
            [type |-> "HighByteServerError",
             msg |-> Msg("Failed to discover tools from HighByte server",
                         kind, <<>>)]

\* discover_tools on a client whose cache is d and whose flag is connected:
\* what it returns or raises, and the cache and the flag it leaves
discover_tools(d, connected, response, net) ==
    LET stored == store_tools(clear(d), response)
        wrote == reaches_processing(net)
    IN  [ret |-> IF net.fail_at = "none"
                 THEN [outcome |-> "return", value |-> stored]
                 ELSE [outcome |-> "raise", exc |-> discover_error(net.error)],
         discovered_tools |-> IF wrote THEN stored ELSE d,
         is_connected |-> IF wrote THEN TRUE ELSE connected,
         wrote |-> wrote,
         events |-> NetEvents("list_tools", net)]

\* every name is taken for a discovered one
MutKnownAlways(d, tool_name) == TRUE

\* tool_name in self._discovered_tools
known_tool(d, tool_name) == tool_name \in Range(Keys(d))

\* result.content as the server may send it
Contents ==
    {<<>>, <<"text">>, <<"image", "audio", "resource">>}

\* the loop over result.content: items of the three known types are kept
RECURSIVE map_content(_)
map_content(content) ==
    IF content = <<>> THEN <<>>
    ELSE (IF Head(content) \in {"text", "image", "resource"}
          THEN <<[type |-> Head(content)]>> ELSE <<>>)
         \o map_content(Tail(content))

\* the except clauses of call_tool
call_error(kind) ==
    IF kind = "ConnectError"
    THEN [type |-> "HighByteConnectionError",
          msg |-> Msg("Failed to connect to HighByte server", kind, <<>>)]
    ELSE [type |-> "HighByteServerError",
          msg |-> Msg("Failed to execute tool", kind, <<>>)]

\* HighByteServer.call_tool on a client whose cache is d
remote_call_tool(d, tool_name, content, net) ==
    IF ~known_tool(d, tool_name)
    THEN [ret |-> [outcome |-> "raise",
                   exc |-> [type |-> "ValueError",
                            msg |-> Msg("Unknown tool", tool_name, Keys(d))]],
          events |-> <<>>]
    ELSE [ret |-> IF net.fail_at = "none"
                  THEN [outcome |-> "return",
                        value |-> [success |-> TRUE,
                                   content |-> map_content(content)]]
                  ELSE [outcome |-> "raise", exc |-> call_error(net.error)],
          events |-> NetEvents("call_tool", net)]

(***************************************************************************)
(* HighByteServerManager.                                                  *)
(***************************************************************************)
cache_ttl == 300

\* the cache never expires
MutNeverExpired(current_time, last) == FALSE

\* the cache expires one second early
MutExpiredAtTTL(current_time, last) ==
    last # <<>> /\ (current_time - last[1]) >= cache_ttl

\* (current_time - self._last_discovery) > self._cache_ttl
cache_expired(current_time, last) ==
    last # <<>> /\ (current_time - last[1]) > cache_ttl

needs_refresh(refresh, connected, current_time, last) ==
    \/ refresh
    \/ ~connected
    \/ last = <<>>
    \/ cache_expired(current_time, last)

-----------------------------------------------------------------------------
(***************************************************************************)
(* The mock backends and the bridge as a state machine.                    *)
(***************************************************************************)
NoCall == [op |-> "none"]

\* a task that runs nothing, a handler that is not running
Idle == [pc |-> "idle"]

TaskIds == 1..MaxTasks

RemoteInit ==
    /\ discovered_tools = <<>>
    /\ is_connected = FALSE
    /\ mgr_server = FALSE
    /\ last_discovery = <<>>
    /\ now = 0
    /\ has_discovered = FALSE
    /\ cache_origin = [written |-> FALSE, at |-> 0, returned |-> FALSE,
                       manager_only |-> TRUE]
    /\ last_remote = NoCall
    /\ frame = Idle
    /\ tasks = [t \in TaskIds |-> Idle]

\* BaseMCPServer.__init__ and the subclass's __init__
MockInit ==
    /\ server_name \in ServerNames
    /\ tools = Registered(server_name)
    /\ registrations = tools
    /\ maintenance_tickets = <<>>
    /\ next_ticket_id = FirstTicketId
    /\ last_call = NoCall
    /\ last_bridge = NoCall

Init == MockInit /\ RemoteInit

\* the effect of server.call_tool(tool_name, arguments) on the server
ServerCall(tool_name, arguments) ==
    /\ IF creates_ticket(tools, tool_name, arguments)
       THEN /\ next_ticket_id < FirstTicketId + MaxTickets
            /\ maintenance_tickets' =
                  Append(maintenance_tickets,
                         new_ticket(arguments, next_ticket_id))
            /\ next_ticket_id' = next_ticket_id + 1
       ELSE UNCHANGED <<maintenance_tickets, next_ticket_id>>
    /\ UNCHANGED <<server_name, tools, registrations>>

\* the handler's own outcome in a call, for the record
Handled(tool_name, arguments, rnd) ==
    IF tool_name \in Range(Keys(tools))
    THEN handler_call(Lookup(tools, tool_name).handler, arguments, rnd,
                      next_ticket_id)
    ELSE [kind |-> "none"]

CallTool(tool_name, arguments, rnd) ==
    /\ ServerCall(tool_name, arguments)
    /\ last_call' = [op |-> "call_tool",
                     tool_name |-> tool_name,
                     arguments |-> arguments,
                     before |-> tools,
                     registered |-> Keys(tools),
                     handled |-> Handled(tool_name, arguments, rnd),
                     ret |-> call_tool(tools, tool_name, arguments, rnd,
                                       next_ticket_id)]
    /\ UNCHANGED <<last_bridge, remoteVars>>

\* the bridged callable of tool_name on this backend
ToolFunc(tool_name, kwargs, rnd) ==
    LET called == call_tool(tools, tool_name, kwargs, rnd, next_ticket_id)
    IN  /\ ServerCall(tool_name, kwargs)
        /\ last_bridge' = [op |-> "tool_func",
                           server |-> server_name,
                           tool_name |-> tool_name,
                           called |-> called,
                           ret |-> tool_func_result(tool_name, called)]
        /\ UNCHANGED <<last_call, remoteVars>>

\* the bridged callable of a tool on a server that answers `called`
ToolFuncOnDouble(called) ==
    /\ last_bridge' = [op |-> "tool_func",
                       server |-> "double",
                       tool_name |-> "t",
                       called |-> called,
                       ret |-> tool_func_result("t", called)]
    /\ UNCHANGED <<server_name, tools, registrations, maintenance_tickets,
                   next_ticket_id,
                   last_call, remoteVars>>

ToolNames == Range(Keys(tools)) \cup {UnknownToolName}

Next ==
    \/ \E t \in ToolNames, rnd \in 0..MaxDraw :
          \E a \in ArgChoices(t) : CallTool(t, a, rnd)
    \/ \E t \in ToolNames, rnd \in 0..MaxDraw :
          \E a \in ArgChoices(t) : ToolFunc(t, a, rnd)
    \/ \E called \in DoubleOutcomes : ToolFuncOnDouble(called)

Spec == Init /\ [][Next]_vars


-----------------------------------------------------------------------------
(***************************************************************************)
(* Properties of the registry and the bridge (checked under Spec).         *)
(***************************************************************************)
\* the call_tool outcomes of the registry the last step produced
RegistryCalls ==
    (IF last_call.op = "call_tool" THEN {last_call.ret} ELSE {})
    \cup (IF last_bridge.op = "tool_func" /\ last_bridge.server # "double"
          THEN {last_bridge.called} ELSE {})

\* every registered tool can still be called successfully
StillServed ==
    \A t \in Range(Keys(tools)) :
        \E a \in ArgChoices(t), rnd \in 0..MaxDraw :
            LET c == call_tool(tools, t, a, rnd, next_ticket_id)
            IN  c.outcome = "return" /\ c.result.success

\* C1: when the handler of a registered tool raises for the given arguments,
\* call_tool returns (does not raise) a failure result that carries the
\* exception's message, the registry holds the same tools as before the
\* call, and every tool can still be called.
C1_HandlerExceptionContained ==
    (last_call.op = "call_tool" /\ last_call.handled.kind = "exc") =>
        /\ last_call.ret.outcome = "return"
        /\ last_call.ret.result.success = FALSE
        /\ last_call.ret.result.error = last_call.handled.msg
        /\ Keys(tools) = last_call.registered
        /\ tools = Registered(server_name)
        /\ StillServed

\* a handler was called with an unexpected keyword and raised TypeError
C1_Witness ==
    /\ last_call.op = "call_tool"
    /\ last_call.handled.kind = "exc"
    /\ last_call.handled.type = "TypeError"
    /\ "bogus" \in DOMAIN last_call.arguments
    /\ last_call.ret.outcome = "return"

\* C2 (as claimed): invoking an unregistered name yields a failure result,
\* not an escaping exception, whose message names the requested tool and
\* the valid names.
C2_UnknownToolYieldsFailureResult ==
    (last_call.op = "call_tool"
        /\ last_call.tool_name \notin Range(last_call.registered)) =>
        /\ last_call.ret.outcome = "return"
        /\ last_call.ret.result.success = FALSE
        /\ last_call.ret.result.error.name = last_call.tool_name
        /\ last_call.ret.result.error.available = last_call.registered

\* C2 (amended): invoking an unregistered name raises ValueError out of
\* call_tool; the message names the requested tool and lists the registered
\* names; no result is returned and the registry is unchanged.
C2_UnknownToolRaisesValueError ==
    (last_call.op = "call_tool"
        /\ last_call.tool_name \notin Range(last_call.registered)) =>
        /\ last_call.ret.outcome = "raise"
        /\ last_call.ret.exc.type = "ValueError"
        /\ last_call.ret.exc.msg.text = "Unknown tool"
        /\ last_call.ret.exc.msg.name = last_call.tool_name
        /\ last_call.ret.exc.msg.available = last_call.registered
        /\ last_call.registered # <<>>
        /\ Keys(tools) = last_call.registered

\* call_tool was invoked with a name the backend does not register
C2_Witness ==
    /\ last_call.op = "call_tool"
    /\ last_call.tool_name = UnknownToolName
    /\ last_call.tool_name \notin Range(Keys(tools))
    /\ last_call.ret.outcome = "raise"

\* C3: a result returned by the registry's call_tool is either
\* {success: true, data} or {success: false, error, error_type}, with no
\* other key (error_type is the classification field).
C3_ResultShape ==
    \A c \in RegistryCalls :
        c.outcome = "return" =>
            \/ /\ c.result.success = TRUE
               /\ DOMAIN c.result = {"success", "data"}
            \/ /\ c.result.success = FALSE
               /\ DOMAIN c.result = {"success", "error", "error_type"}

\* both shapes at once: a call that failed in the handler, and a bridged
\* call that succeeded
C3_Witness ==
    /\ last_call.op = "call_tool"
    /\ last_call.ret.outcome = "return"
    /\ ~last_call.ret.result.success
    /\ last_call.ret.result.error_type = "ValueError"
    /\ last_bridge.op = "tool_func"
    /\ last_bridge.server # "double"
    /\ last_bridge.called.outcome = "return"
    /\ last_bridge.called.result.success

\* the backend call behind a bridged call failed: it raised, or returned a
\* result whose success is not true
BackendFailed(called) ==
    \/ called.outcome = "raise"
    \/ ~("success" \in DOMAIN called.result /\ called.result.success)

\* a returned success result whose data json.dumps rejects
Unserializable(called) ==
    /\ called.outcome = "return"
    /\ "success" \in DOMAIN called.result /\ called.result.success
    /\ "data" \in DOMAIN called.result
    /\ "py_object" \in DOMAIN called.result.data

ErrorIndicators == {"Error: ", "Exception calling "}

\* C4: tool_func always returns a str, whatever the backend did; when the
\* backend raised or returned a failure result (or the result could not be
\* serialized) the string starts with an error indicator.
C4_BridgeNeverRaises ==
    last_bridge.op = "tool_func" =>
        /\ last_bridge.ret.outcome = "return"
        /\ last_bridge.ret.value.type = "str"
        /\ (BackendFailed(last_bridge.called)
              \/ Unserializable(last_bridge.called)) =>
                last_bridge.ret.value.prefix \in ErrorIndicators

\* the bridged callable of a name the registry does not hold: call_tool
\* raised the unknown-tool ValueError and tool_func returned a string
C4_Witness ==
    /\ last_bridge.op = "tool_func"
    /\ last_bridge.server # "double"
    /\ last_bridge.called.outcome = "raise"
    /\ last_bridge.called.exc.type = "ValueError"
    /\ last_bridge.ret.outcome = "return"
    /\ last_bridge.ret.value.prefix = "Exception calling "


-----------------------------------------------------------------------------
(***************************************************************************)
(* The remote client and its manager as a state machine.  Each call is     *)
(* one step and takes no time on the model's clock; time passes between    *)
(* calls.  discovered_tools, is_connected and has_discovered describe the  *)
(* client at hand: one a caller constructed while the manager holds none,  *)
(* the manager's own from its first get_server on.                         *)
(***************************************************************************)
\* a caller holds the client: its own, or the one get_server returned
ClientInHand == ~mgr_server \/ last_discovery # <<>>

\* how far the clock moves between calls
Steps == {cache_ttl, cache_ttl + 1}

NoNet == [fail_at |-> "none", error |-> "none"]

\* the inputs of a discover_tools call: the response matters only when the
\* call gets to read it
DiscoverInputs(responses, nets) ==
    {in \in responses \X nets : reaches_processing(in[2]) \/ in[1] = <<>>}

\* cache_origin remembers the discovery that last wrote the cache: when it
\* wrote, whether it returned, and whether every discover_tools on this
\* client so far was run by the manager
NoOrigin ==
    [written |-> FALSE, at |-> 0, returned |-> FALSE, manager_only |-> TRUE]

Before(d, connected, discovered) ==
    [tools |-> d, connected |-> connected, has_discovered |-> discovered,
     last_discovery |-> last_discovery]

\* the client after discover_tools ended as r; origin is what was known of
\* the cache before, by_manager whether get_server made the call
ClientAfter(r, discovered, origin, by_manager) ==
    /\ discovered_tools' = r.discovered_tools
    /\ is_connected' = r.is_connected
    /\ has_discovered' = (discovered \/ r.ret.outcome = "return")
    /\ cache_origin' =
          [written |-> origin.written \/ r.wrote,
           at |-> IF r.wrote THEN now ELSE origin.at,
           returned |-> IF r.wrote THEN r.ret.outcome = "return"
                        ELSE origin.returned,
           manager_only |-> origin.manager_only /\ by_manager]

\* await server.discover_tools()
Discover(response, net) ==
    LET r == discover_tools(discovered_tools, is_connected, response, net)
    IN  /\ ClientInHand
        /\ ClientAfter(r, has_discovered, cache_origin, FALSE)
        /\ last_remote' = [op |-> "discover_tools",
                           before |-> Before(discovered_tools, is_connected,
                                             has_discovered),
                           refresh |-> FALSE,
                           tool_name |-> "",
                           response |-> response,
                           net |-> net,
                           ran_discover |-> TRUE,
                           discover |-> r.ret,
                           events |-> r.events,
                           ret |-> r.ret]
        /\ UNCHANGED <<mgr_server, last_discovery, now>>
        /\ UNCHANGED <<mockVars, taskVars>>

\* await server.call_tool(tool_name, arguments)
RemoteCallTool(tool_name, content, net) ==
    LET r == remote_call_tool(discovered_tools, tool_name, content, net)
    IN  /\ ClientInHand
        /\ known_tool(discovered_tools, tool_name)
              \/ (content = <<>> /\ net = NoNet)
        /\ last_remote' = [op |-> "call_tool",
                           before |-> Before(discovered_tools, is_connected,
                                             has_discovered),
                           refresh |-> FALSE,
                           tool_name |-> tool_name,
                           response |-> <<>>,
                           net |-> net,
                           ran_discover |-> FALSE,
                           discover |-> [outcome |-> "none"],
                           events |-> r.events,
                           ret |-> r.ret]
        /\ UNCHANGED <<discovered_tools, is_connected, has_discovered,
                       cache_origin, mgr_server, last_discovery, now>>
        /\ UNCHANGED <<mockVars, taskVars>>

\* get_server(refresh), for get_server itself (op "get_server") and for
\* refresh_tools, which calls get_server(refresh=True) and lists the tools
ManagerCall(op, refresh, response, net) ==
    LET created == ~mgr_server
        d == IF created THEN <<>> ELSE discovered_tools
        connected == IF created THEN FALSE ELSE is_connected
        discovered == IF created THEN FALSE ELSE has_discovered
        origin == IF created THEN NoOrigin ELSE cache_origin
        current_time == now
        refreshes == needs_refresh(refresh, connected, current_time,
                                   last_discovery)
        r == discover_tools(d, connected, response, net)
        returns == ~refreshes \/ r.ret.outcome = "return"
    IN  /\ refreshes \/ (response = <<>> /\ net = NoNet)
        /\ mgr_server' = TRUE
        /\ IF refreshes
           THEN /\ ClientAfter(r, discovered, origin, TRUE)
                /\ last_discovery' = IF r.ret.outcome = "return"
                                     THEN <<current_time>>
                                     ELSE last_discovery
           ELSE /\ cache_origin' = origin
                /\ UNCHANGED <<discovered_tools, is_connected,
                               has_discovered, last_discovery>>
        /\ last_remote' = [op |-> op,
                           before |-> Before(d, connected, discovered),
                           refresh |-> refresh,
                           tool_name |-> "",
                           response |-> response,
                           net |-> net,
                           ran_discover |-> refreshes,
                           discover |-> IF refreshes THEN r.ret
                                        ELSE [outcome |-> "none"],
                           events |-> IF refreshes THEN r.events ELSE <<>>,
                           ret |-> IF ~returns THEN r.ret
                                   ELSE IF op = "refresh_tools"
                                   THEN [outcome |-> "return",
                                         value |-> discovered_tools']
                                   ELSE [outcome |-> "return",
                                         value |-> "self._server"]]
        /\ UNCHANGED now
        /\ UNCHANGED <<mockVars, taskVars>>

GetServer(refresh, response, net) ==
    ManagerCall("get_server", refresh, response, net)

RefreshTools(response, net) ==
    ManagerCall("refresh_tools", TRUE, response, net)

\* time passes between calls
Tick(step) ==
    /\ now + step <= MaxTime
    /\ now' = now + step
    /\ last_remote' = NoCall
    /\ UNCHANGED <<discovered_tools, is_connected, has_discovered,
                   cache_origin, mgr_server, last_discovery>>
    /\ UNCHANGED <<mockVars, taskVars>>

RemoteToolNames == {t.name : t \in ServerTools} \cup {UnknownToolName}

InitRemote ==
    /\ RemoteInit
    /\ server_name = "highbyte-mock"
    /\ tools = Registered(server_name)
    /\ registrations = tools
    /\ maintenance_tickets = <<>>
    /\ next_ticket_id = FirstTicketId
    /\ last_call = NoCall
    /\ last_bridge = NoCall

\* the client used on its own
NextClient ==
    \/ \E in \in DiscoverInputs(Responses, NetOutcomes("list_tools")) :
          Discover(in[1], in[2])
    \/ \E t \in RemoteToolNames, content \in Contents,
          net \in NetOutcomes("call_tool") : RemoteCallTool(t, content, net)

SpecClient == InitRemote /\ [][NextClient]_vars

\* what the manager's discoveries meet: a response of at most one tool, and
\* a failure before the list is read or at teardown
ManagerInputs ==
    DiscoverInputs({r \in Responses : Len(r) <= 1},
                   {NoNet,
                    [fail_at |-> "connect", error |-> "ConnectError"],
                    [fail_at |-> "list_tools", error |-> "Other"],
                    [fail_at |-> "session_exit", error |-> "Other"]})

\* the client behind its manager
NextManager ==
    \/ \E refresh \in BOOLEAN, in \in ManagerInputs :
          GetServer(refresh, in[1], in[2])
    \/ \E in \in ManagerInputs : RefreshTools(in[1], in[2])
    \/ \E in \in ManagerInputs : Discover(in[1], in[2])
    \/ \E step \in Steps : Tick(step)

SpecManager == InitRemote /\ [][NextManager]_vars

-----------------------------------------------------------------------------
(***************************************************************************)
(* Properties of the remote client (SpecClient) and of its manager         *)
(* (SpecManager).  last_remote is the call that led to the current state.  *)
(***************************************************************************)
Names(seq) == {seq[i].name : i \in 1..Len(seq)}

\* the last tool of that name in a list-tools response
LastNamed(response, name) ==
    LET i == CHOOSE j \in 1..Len(response) :
                /\ response[j].name = name
                /\ \A k \in (j + 1)..Len(response) : response[k].name # name
    IN  response[i]

\* the cache holds the response and nothing else: one entry for each name
\* listed, converted from the tool listed (last) under that name
HoldsExactly(d, response) ==
    /\ Names(d) = Names(response)
    /\ Cardinality(Names(d)) = Len(d)
    /\ \A i \in 1..Len(d) :
          d[i] = DiscoveredTool(LastNamed(response, d[i].name))

\* C5: call_tool on the remote client with a name that is not in the cached
\* tool set raises the unknown-tool ValueError listing the cached names,
\* does nothing on the network, runs no discovery, and leaves the cached
\* tool set and the connected flag as they were.
C5_UnknownNameFailsLocally ==
    (last_remote.op = "call_tool"
        /\ last_remote.tool_name \notin Names(last_remote.before.tools)) =>
        /\ last_remote.ret.outcome = "raise"
        /\ last_remote.ret.exc.type = "ValueError"
        /\ last_remote.ret.exc.msg.text = "Unknown tool"
        /\ last_remote.ret.exc.msg.name = last_remote.tool_name
        /\ last_remote.ret.exc.msg.available = Keys(last_remote.before.tools)
        /\ last_remote.events = <<>>
        /\ ~last_remote.ran_discover
        /\ discovered_tools = last_remote.before.tools
        /\ is_connected = last_remote.before.connected

\* after a discovery cached some tools, a name outside them was refused
C5_Witness ==
    /\ last_remote.op = "call_tool"
    /\ last_remote.before.tools # <<>>
    /\ last_remote.tool_name \notin Names(last_remote.before.tools)
    /\ last_remote.ret.outcome = "raise"
    /\ last_remote.events = <<>>

\* C6: after a discover_tools call that returned, whatever was cached
\* before, the cache holds exactly the tools of the list-tools response, the
\* client is connected, and the returned list is the cached tools.
C6_DiscoverReplacesCache ==
    (last_remote.op = "discover_tools"
        /\ last_remote.ret.outcome = "return") =>
        /\ HoldsExactly(discovered_tools, last_remote.response)
        /\ is_connected
        /\ last_remote.ret.value = discovered_tools

\* a discovery returned on a client whose cache held a tool the new
\* response does not list
C6_Witness ==
    /\ last_remote.op = "discover_tools"
    /\ last_remote.ret.outcome = "return"
    /\ last_remote.response # <<>>
    /\ Names(last_remote.before.tools) \ Names(last_remote.response) # {}
    /\ Names(discovered_tools) = Names(last_remote.response)

\* C7 (as claimed): a discover_tools that returns leaves the client
\* connected, and one that raises on a connected client leaves it
\* disconnected.
C7_FailedDiscoverDisconnects ==
    last_remote.op = "discover_tools" =>
        /\ last_remote.ret.outcome = "return" => is_connected
        /\ (last_remote.ret.outcome = "raise"
              /\ last_remote.before.connected) => ~is_connected

\* C8 (as claimed): when discover_tools raises, at whatever stage, the cache
\* is the cache of before the call.
C8_FailedDiscoverKeepsCache ==
    (last_remote.op = "discover_tools"
        /\ last_remote.ret.outcome = "raise") =>
        discovered_tools = last_remote.before.tools

EarlyStages == {"connect", "session", "initialize", "list_tools"}

TeardownStages == {"session_exit", "transport_exit"}

\* C8 (amended): when discover_tools raises at connect, at session start,
\* at the handshake or at the list-tools request, the cache and the flag are
\* those of before the call; when it raises at session or transport
\* teardown, the cache already holds exactly the response and the flag is
\* set.
C8_DiscoverRaisedBeforeOrAfterWrite ==
    (last_remote.op = "discover_tools"
        /\ last_remote.ret.outcome = "raise") =>
        /\ last_remote.net.fail_at \in EarlyStages \cup TeardownStages
        /\ last_remote.net.fail_at \in EarlyStages =>
              /\ discovered_tools = last_remote.before.tools
              /\ is_connected = last_remote.before.connected
        /\ last_remote.net.fail_at \in TeardownStages =>
              /\ HoldsExactly(discovered_tools, last_remote.response)
              /\ is_connected

\* the list-tools request failed on a client that had tools cached, and
\* they are still there
C8_Witness ==
    /\ last_remote.op = "discover_tools"
    /\ last_remote.ret.outcome = "raise"
    /\ last_remote.net.fail_at = "list_tools"
    /\ last_remote.before.tools # <<>>
    /\ discovered_tools = last_remote.before.tools

\* seconds between the manager's last successful discovery and this call
Elapsed(last) == now - last[1]

\* C9: get_server runs discover_tools exactly when refresh is forced, or no
\* discover_tools of the client has returned yet, or more than cache_ttl
\* seconds have passed since the manager's last successful discovery;
\* otherwise it returns the server it holds, does nothing on the network
\* and leaves the client and the discovery time alone.
C9_RefreshExactlyWhenNeeded ==
    last_remote.op = "get_server" =>
        /\ last_remote.ran_discover <=>
              \/ last_remote.refresh
              \/ ~last_remote.before.has_discovered
              \/ last_remote.before.last_discovery = <<>>
              \/ Elapsed(last_remote.before.last_discovery) > cache_ttl
        /\ ~last_remote.ran_discover =>
              /\ last_remote.ret = [outcome |-> "return",
                                    value |-> "self._server"]
              /\ last_remote.events = <<>>
              /\ discovered_tools = last_remote.before.tools
              /\ is_connected = last_remote.before.connected
              /\ last_discovery = last_remote.before.last_discovery

\* both sides of the expiry: an unforced get_server exactly cache_ttl
\* seconds after the last discovery served the cache
C9_Witness ==
    /\ last_remote.op = "get_server"
    /\ ~last_remote.refresh
    /\ last_remote.before.has_discovered
    /\ Elapsed(last_remote.before.last_discovery) = cache_ttl
    /\ ~last_remote.ran_discover
    /\ last_remote.ret.outcome = "return"

ConnectionLevel == {"ConnectError", "TimeoutException"}

\* C11: a discover_tools that raises, raises HighByteConnectionError when the
\* transport could not connect (httpx.ConnectError) or timed out
\* (httpx.TimeoutException), at whatever stage, and HighByteServerError
\* itself for every other failure; nothing else is raised.
C11_DiscoverClassifiesFailures ==
    (last_remote.op = "discover_tools"
        /\ last_remote.ret.outcome = "raise") =>
        /\ last_remote.net.error \in ErrorKinds
        /\ last_remote.net.error \in ConnectionLevel =>
              last_remote.ret.exc.type = "HighByteConnectionError"
        /\ last_remote.net.error \notin ConnectionLevel =>
              last_remote.ret.exc.type = "HighByteServerError"

\* the list-tools request timed out and discover_tools raised the
\* connection error
C11_Witness ==
    /\ last_remote.op = "discover_tools"
    /\ last_remote.net = [fail_at |-> "list_tools",
                          error |-> "TimeoutException"]
    /\ last_remote.ret.outcome = "raise"
    /\ last_remote.ret.exc.type = "HighByteConnectionError"

\* C12 (as claimed): a call_tool of a known tool that fails raises
\* HighByteConnectionError when the transport could not connect or timed
\* out, and HighByteServerError itself for every other failure.
C12_CallToolClassifiesFailures ==
    (last_remote.op = "call_tool"
        /\ last_remote.tool_name \in Names(last_remote.before.tools)
        /\ last_remote.ret.outcome = "raise") =>
        /\ last_remote.net.error \in ConnectionLevel =>
              last_remote.ret.exc.type = "HighByteConnectionError"
        /\ last_remote.net.error \notin ConnectionLevel =>
              last_remote.ret.exc.type = "HighByteServerError"

\* how often event e occurs in a call's events
Count(events, e) == Cardinality({i \in 1..Len(events) : events[i] = e})

\* event a occurs, and before every occurrence of event b
Precedes(events, a, b) ==
    \E i \in 1..Len(events) :
        /\ events[i] = a
        /\ \A j \in 1..Len(events) : events[j] = b => i < j

\* calls that go to the network: discover_tools, and call_tool of a known
\* tool
NetworkCall ==
    \/ last_remote.op = "discover_tools"
    \/ /\ last_remote.op = "call_tool"
       /\ last_remote.tool_name \in Names(last_remote.before.tools)

Request == IF last_remote.op = "call_tool" THEN "call_tool" ELSE "list_tools"

\* C13: when a discover_tools or call_tool call completes, returning or
\* raising, the transport it opened has been closed after everything else the
\* call did, and the session it opened has been closed before the transport
\* and after the last use of it; a request is only ever sent on a session
\* the same call opened.
C13_OpenedIsClosed ==
    NetworkCall =>
        LET ev == last_remote.events
            transport_opened == last_remote.net.fail_at # "connect"
            session_opened ==
                last_remote.net.fail_at \notin {"connect", "session"}
        IN  /\ Count(ev, "connect") >= 1
            /\ transport_opened =>
                  /\ Count(ev, "close_transport") = Count(ev, "connect")
                  /\ ev[Len(ev)] = "close_transport"
            /\ session_opened =>
                  /\ Count(ev, "close_session") = Count(ev, "session")
                  /\ Precedes(ev, "close_session", "close_transport")
                  /\ Precedes(ev, "initialize", "close_session")
            /\ Count(ev, Request) >= 1 =>
                  /\ Precedes(ev, "session", Request)
                  /\ Precedes(ev, Request, "close_session")

\* a call raised at its request, after it had opened a transport and a
\* session, and both were closed
C13_Witness ==
    /\ NetworkCall
    /\ last_remote.ret.outcome = "raise"
    /\ last_remote.net.fail_at = Request
    /\ last_remote.events = <<"connect", "session", "initialize", Request,
                              "close_session", "close_transport">>

\* C14: a discover_tools call, or a call_tool of a known tool, connects
\* exactly once, opens one session once connected, sends its request at most
\* once and only after the handshake succeeded, and raises exactly when a
\* stage failed, without a second attempt.
C14_OneAttemptPerCall ==
    NetworkCall =>
        LET ev == last_remote.events
            failed == last_remote.net.fail_at
        IN  /\ Count(ev, "connect") = 1
            /\ Count(ev, "session") = (IF failed = "connect" THEN 0 ELSE 1)
            /\ Count(ev, "initialize") =
                  (IF failed \in {"connect", "session"} THEN 0 ELSE 1)
            /\ Count(ev, Request) =
                  (IF failed \in {"connect", "session", "initialize"}
                   THEN 0 ELSE 1)
            /\ Count(ev, Request) = 1 => Precedes(ev, "initialize", Request)
            /\ (last_remote.ret.outcome = "raise") <=> (failed # "none")
            /\ failed \in {"connect", "session", "initialize"} =>
                  \A i \in 1..Len(ev) :
                      ev[i] = failed =>
                          \A j \in (i + 1)..Len(ev) :
                              ev[j] \in {"close_session", "close_transport"}

\* the handshake of a call_tool failed: the call raised after one
\* connection, without sending its request
C14_Witness ==
    /\ last_remote.op = "call_tool"
    /\ last_remote.net.fail_at = "initialize"
    /\ last_remote.ret.outcome = "raise"
    /\ Count(last_remote.events, "connect") = 1
    /\ Count(last_remote.events, "call_tool") = 0

-----------------------------------------------------------------------------
(***************************************************************************)
(* The registry of a constructed backend under its public operations:      *)
(* register_tool, list_tools, call_tool, get_server_info.  registrations   *)
(* is the history of register_tool calls, the constructor's included.      *)
(***************************************************************************)
\* what later register_tool calls register: two new names, each in two
\* versions
RegistrationChoices ==
    LET first == [description |-> "first version",
                  input_schema |-> InputSchema(<<>>, <<>>),
                  handler |-> "_list_equipment"]
        second == [description |-> "second version",
                   input_schema |->
                       InputSchema(<<Prop("location", "string", "None"),
                                     Prop("low_stock_only", "boolean",
                                          "False")>>, <<>>),
                   handler |-> "_get_inventory_levels"]
    IN  {MCPTool(n, v.description, v.input_schema, v.handler) :
            n \in {"probe", "audit"},
            v \in {first, second}}

\* server.register_tool(name, description, input_schema, handler)
RegisterTool(name, description, input_schema, handler) ==
    /\ Len(registrations) <
          Len(Registered(server_name)) + MaxRegistrations
    /\ tools' = register_tool(tools, name, description, input_schema, handler)
    /\ registrations' =
          Append(registrations,
                 MCPTool(name, description, input_schema, handler))
    /\ last_call' = [op |-> "register_tool", before |-> tools,
                     tool_name |-> name]
    /\ UNCHANGED <<server_name, maintenance_tickets, next_ticket_id,
                   last_bridge, remoteVars>>

\* server.list_tools()
ListTools ==
    /\ last_call' = [op |-> "list_tools", before |-> tools,
                     ret |-> list_tools(tools)]
    /\ UNCHANGED <<server_name, tools, registrations, maintenance_tickets,
                   next_ticket_id, last_bridge, remoteVars>>

\* server.get_server_info()
GetServerInfo ==
    /\ last_call' = [op |-> "get_server_info", before |-> tools,
                     ret |-> get_server_info(server_name, tools)]
    /\ UNCHANGED <<server_name, tools, registrations, maintenance_tickets,
                   next_ticket_id, last_bridge, remoteVars>>

NextRegistry ==
    \/ \E r \in RegistrationChoices :
          RegisterTool(r.name, r.description, r.input_schema, r.handler)
    \/ ListTools
    \/ GetServerInfo
    \/ \E t \in ToolNames : \E a \in ArgChoices(t) : CallTool(t, a, 0)

SpecRegistry == Init /\ [][NextRegistry]_vars

(***************************************************************************)
(* Properties of the registry (checked under SpecRegistry).                *)
(***************************************************************************)
DistinctNames(regs) ==
    \A i, j \in 1..Len(regs) : i # j => regs[i].name # regs[j].name

\* the last registration made under name n
LastRegistered(n) ==
    LET i == CHOOSE j \in 1..Len(registrations) :
                /\ registrations[j].name = n
                /\ \A k \in (j + 1)..Len(registrations) :
                      registrations[k].name # n
    IN  registrations[i]

TimesRegistered(n) ==
    Cardinality({i \in 1..Len(registrations) : registrations[i].name = n})

\* C15: when all register_tool calls so far had distinct names, list_tools
\* returns one definition per call, in the order of the calls, each with
\* the name, description and input schema of its call.
C15_ListIsRegistrations ==
    (last_call.op = "list_tools" /\ DistinctNames(registrations)) =>
        last_call.ret =
            [i \in 1..Len(registrations) |->
                [name |-> registrations[i].name,
                 description |-> registrations[i].description,
                 inputSchema |-> registrations[i].input_schema]]

\* list_tools after two tools were registered on the constructed backend
\* under new names
C15_Witness ==
    /\ last_call.op = "list_tools"
    /\ DistinctNames(registrations)
    /\ Len(registrations) >= Len(Registered(server_name)) + 2
    /\ Len(last_call.ret) = Len(registrations)

\* C16: for a name registered more than once the registry holds one tool,
\* the one registered last: list_tools shows its description and schema
\* once, and call_tool runs its handler.
C16_LastRegistrationWins ==
    \A n \in Names(registrations) :
        TimesRegistered(n) >= 2 =>
            /\ Cardinality({i \in 1..Len(tools) : tools[i].name = n}) = 1
            /\ Lookup(tools, n) = LastRegistered(n)
            /\ last_call.op = "list_tools" =>
                  {e \in Range(last_call.ret) : e.name = n} =
                      {[name |-> n,
                        description |-> LastRegistered(n).description,
                        inputSchema |-> LastRegistered(n).input_schema]}
            /\ (last_call.op = "call_tool" /\ last_call.tool_name = n) =>
                  /\ last_call.ret.outcome = "return"
                  /\ \E rnd \in 0..MaxDraw :
                        LET h == handler_call(LastRegistered(n).handler,
                                              last_call.arguments, rnd, 0)
                        IN  IF h.kind = "ok"
                            THEN /\ last_call.ret.result.success
                                 /\ last_call.ret.result.data = h.data
                            ELSE /\ ~last_call.ret.result.success
                                 /\ last_call.ret.result.error = h.msg

\* a name was registered with one handler, then with another, and a call
\* of it returned what the second handler returns
C16_Witness ==
    /\ last_call.op = "call_tool"
    /\ last_call.tool_name = "probe"
    /\ TimesRegistered("probe") = 2
    /\ registrations[Len(registrations) - 1].handler = "_list_equipment"
    /\ LastRegistered("probe").handler = "_get_inventory_levels"
    /\ last_call.ret.outcome = "return"
    /\ last_call.ret.result.success
    /\ last_call.ret.result.data =
          handler_call("_get_inventory_levels", last_call.arguments, 0, 0).data

\* C17 (as claimed): whatever public operations were performed on a
\* constructed backend, its registry is the one its constructor built.
C17_RegistryImmutable ==
    list_tools(tools) = list_tools(Registered(server_name))

\* C17 (amended): list_tools, call_tool and get_server_info leave the
\* registry as it was; register_tool, the one public operation that changes
\* it, adds a tool or replaces the tool of that name in place and never
\* removes one.
C17_OnlyRegisterChangesRegistry ==
    /\ last_call.op \in {"list_tools", "call_tool", "get_server_info"} =>
          tools = last_call.before
    /\ last_call.op = "register_tool" =>
          /\ Len(tools) >= Len(last_call.before)
          /\ \A i \in 1..Len(last_call.before) :
                /\ tools[i].name = last_call.before[i].name
                /\ tools[i].name # last_call.tool_name =>
                      tools[i] = last_call.before[i]
          /\ last_call.tool_name \in Names(tools)

\* a call whose handler raised, on a registry that had been extended after
\* construction, left the registry as it was
C17_Witness ==
    /\ last_call.op = "call_tool"
    /\ last_call.handled.kind = "exc"
    /\ Len(registrations) > Len(Registered(server_name))
    /\ tools = last_call.before

-----------------------------------------------------------------------------
(***************************************************************************)
(* MCPClient._create_tool_wrapper: the parameters derived from an input    *)
(* schema.                                                                 *)
(***************************************************************************)
\* the "type" a property may carry
JsonTypes ==
    {"string", "integer", "number", "boolean", "object", "array", "<absent>"}

PropNames == {"a", "b", "c"}

\* property dicts of up to n entries with pairwise distinct names
RECURSIVE PropLists(_)
PropLists(n) ==
    IF n = 0 THEN {<<>>}
    ELSE LET shorter == PropLists(n - 1)
         IN  shorter \cup
             {Append(q, Prop(name, type, "<absent>")) :
                 q \in {x \in shorter : Len(x) = n - 1},
                 name \in PropNames, type \in JsonTypes}

\* the input schemas given to the bridge: those of the registered tools,
\* and schemas over PropNames with any types and any required list
SchemaChoices ==
    {tools[i].input_schema : i \in 1..Len(tools)}
    \cup {InputSchema(q, required) :
            q \in {x \in PropLists(MaxProps) : DistinctNames(x)},
            required \in {<<>>, <<"a">>, <<"b">>, <<"a", "b">>, <<"c">>}}

\* self._create_tool_wrapper(server, tool_name, tool_description,
\* input_schema), up to the creation of ArgsSchema; wrappers are created
\* before any of them is called
CreateToolWrapper(input_schema) ==
    /\ last_bridge = NoCall
    /\ last_bridge' = [op |-> "create_tool_wrapper",
                       input_schema |-> input_schema,
                       fields |-> args_schema_fields(input_schema)]
    /\ UNCHANGED <<server_name, tools, registrations, maintenance_tickets,
                   next_ticket_id, last_call, remoteVars>>

\* the bridged callable of tool_name on this backend, called as
\* tool_func(**kwargs); the record keeps the call's inputs
BridgedCall(tool_name, kwargs, rnd) ==
    LET called == call_tool(tools, tool_name, kwargs, rnd, next_ticket_id)
    IN  /\ ServerCall(tool_name, kwargs)
        /\ last_bridge' = [op |-> "tool_func",
                           server |-> server_name,
                           tool_name |-> tool_name,
                           kwargs |-> kwargs,
                           rnd |-> rnd,
                           id |-> next_ticket_id,
                           called |-> called,
                           ret |-> tool_func_result(tool_name, called)]
        /\ UNCHANGED <<last_call, remoteVars>>

NextWrapper ==
    /\ last_bridge = NoCall
    /\ \E input_schema \in SchemaChoices : CreateToolWrapper(input_schema)

SpecWrapper == Init /\ [][NextWrapper]_vars

NextBridge ==
    \E t \in ToolNames, rnd \in 0..MaxDraw :
        \E a \in ArgChoices(t) : BridgedCall(t, a, rnd)

SpecBridge == Init /\ [][NextBridge]_vars

\* the Python value of a property's "default" entry
DefaultValue(prop) ==
    CASE prop.type = "boolean" -> (prop.default = "True")
      [] prop.type = "integer" ->
            (CASE prop.default = "30" -> 30
               [] prop.default = "50" -> 50
               [] prop.default = "60" -> 60
               [] prop.default = "90" -> 90
               [] prop.default = "100" -> 100)
      [] OTHER -> prop.default

\* kwargs with key also given, as value
With(kwargs, key, value) ==
    [k \in DOMAIN kwargs \cup {key} |->
        IF k = key THEN value ELSE kwargs[k]]

\* the properties of the called tool's schema that declare a default and
\* that the call left out
OmittedDefaults ==
    IF last_bridge.op = "tool_func" /\ last_bridge.server # "double"
         /\ last_bridge.tool_name \in Names(tools)
    THEN {prop \in Range(Lookup(tools, last_bridge.tool_name)
                            .input_schema.properties) :
            /\ prop.default # "<absent>"
            /\ prop.name \notin DOMAIN last_bridge.kwargs}
    ELSE {}

\* C18: a bridged call that leaves out an optional property whose schema
\* declares a default returns what the same call returns with the property
\* given as that default (same arguments otherwise, same random draws).
C18_OmittedEqualsDefault ==
    \A prop \in OmittedDefaults :
        last_bridge.ret =
            tool_func_result(
                last_bridge.tool_name,
                call_tool(tools, last_bridge.tool_name,
                          With(last_bridge.kwargs, prop.name,
                               DefaultValue(prop)),
                          last_bridge.rnd, last_bridge.id))

\* execute_query (query: required string, limit: optional integer, default
\* 100) was called through the bridge with limit left out and succeeded
C18_Witness ==
    /\ last_bridge.op = "tool_func"
    /\ last_bridge.tool_name = "teradata_execute_query"
    /\ last_bridge.kwargs = [query |-> "SELECT * FROM Production"]
    /\ \E prop \in OmittedDefaults :
          prop.name = "limit" /\ prop.type = "integer"
    /\ last_bridge.called.outcome = "return"
    /\ last_bridge.called.result.success
    /\ last_bridge.ret.value.prefix = ""

\* C19: the bridge derives one parameter per schema property, in order: a
\* property named in required is required and has no default (Ellipsis),
\* any other is optional with default None; the type is int, float or bool
\* for integer, number or boolean and str for any other or missing type.
C19_FieldsFollowSchema ==
    last_bridge.op = "create_tool_wrapper" =>
        LET props == last_bridge.input_schema.properties
            req == Range(last_bridge.input_schema.required)
            f == last_bridge.fields
        IN  /\ Len(f) = Len(props)
            /\ \A i \in 1..Len(props) :
                  /\ f[i].name = props[i].name
                  /\ props[i].name \in req =>
                        ~f[i].optional /\ f[i].default = "..."
                  /\ props[i].name \notin req =>
                        f[i].optional /\ f[i].default = "None"
                  /\ props[i].type = "integer" => f[i].type = "int"
                  /\ props[i].type = "number" => f[i].type = "float"
                  /\ props[i].type = "boolean" => f[i].type = "bool"
                  /\ props[i].type \notin {"integer", "number", "boolean"}
                        => f[i].type = "str"

\* a schema with a required number and an optional property without a type
C19_Witness ==
    /\ last_bridge.op = "create_tool_wrapper"
    /\ last_bridge.input_schema =
          InputSchema(<<Prop("a", "number", "<absent>"),
                        Prop("b", "<absent>", "<absent>")>>, <<"a">>)
    /\ last_bridge.fields =
          <<[name |-> "a", type |-> "float", optional |-> FALSE,
             default |-> "..."],
            [name |-> "b", type |-> "str", optional |-> TRUE,
             default |-> "None"]>>

\* the ticket a successful create_maintenance_ticket call returned
ReturnedTickets ==
    {c.result.data.ticket :
        c \in {x \in RegistryCalls :
                 /\ x.outcome = "return"
                 /\ x.result.success
                 /\ "ticket" \in DOMAIN x.result.data}}

\* C20: the ids of the tickets created on a backend, in the order of their
\* creation, start at 1000 and each is strictly greater than all before it;
\* a ticket that a successful creation returned is one of them, and no
\* other ticket has its id.
C20_TicketIdsIncrease ==
    /\ \A i \in 1..Len(maintenance_tickets) :
          /\ maintenance_tickets[i].ticket_id.prefix = "MT-"
          /\ maintenance_tickets[i].ticket_id.number >= FirstTicketId
          /\ \A j \in 1..(i - 1) :
                maintenance_tickets[j].ticket_id.number <
                    maintenance_tickets[i].ticket_id.number
    /\ maintenance_tickets # <<>> =>
          maintenance_tickets[1].ticket_id.number = FirstTicketId
    /\ \A t \in ReturnedTickets :
          /\ t \in Range(maintenance_tickets)
          /\ Cardinality({i \in 1..Len(maintenance_tickets) :
                maintenance_tickets[i].ticket_id = t.ticket_id}) = 1

\* a second ticket was created and got an id above the first one's
C20_Witness ==
    /\ Len(maintenance_tickets) = 2
    /\ last_call.op = "call_tool"
    /\ last_call.ret.outcome = "return"
    /\ last_call.ret.result.success
    /\ "ticket" \in DOMAIN last_call.ret.result.data
    /\ last_call.ret.result.data.ticket = maintenance_tickets[2]
    /\ maintenance_tickets[2].ticket_id.number >
          maintenance_tickets[1].ticket_id.number

-----------------------------------------------------------------------------
(***************************************************************************)
(* The query handlers over ranges of their parameters (SpecHandlers): one  *)
(* call on a freshly constructed backend, made through call_tool.          *)
(***************************************************************************)
\* status, priority and limit as a caller may give them; "closed" is a
\* status no work order has
WorkOrderArgs ==
    {NoArgs}
    \cup {[limit |-> l] : l \in -1..MaxLimit}
    \cup {[status |-> st, priority |-> p, limit |-> l] :
            st \in {"all", "open", "closed"}, p \in {"None", "high"},
            l \in -1..MaxLimit}

\* server.call_tool("sqlserver_query_work_orders", a)
QueryWorkOrders(a, rnd) ==
    /\ "sqlserver_query_work_orders" \in Range(Keys(tools))
    /\ CallTool("sqlserver_query_work_orders", a, rnd)

\* C21: whatever limit, status filter and priority filter are given,
\* query_work_orders returns at most min(limit, 20) work orders, hence never
\* more than 20, returns none when limit is zero or negative, and reports as
\* count the number of work orders it returns.
C21_WorkOrdersCapped ==
    (/\ last_call.op = "call_tool"
     /\ last_call.tool_name = "sqlserver_query_work_orders"
     /\ last_call.handled.kind = "ok")
    => LET limit == Arg(last_call.arguments, "limit", 50)
           ret == last_call.ret
       IN  /\ ret.outcome = "return"
           /\ ret.result.success
           /\ Len(ret.result.data.work_orders) <= 20
           /\ IF limit <= 0
              THEN ret.result.data.work_orders = <<>>
              ELSE Len(ret.result.data.work_orders) <= Min(limit, 20)
           /\ ret.result.data.count = Len(ret.result.data.work_orders)

\* a call asking for more than 20 work orders, unfiltered, got exactly 20
C21_Witness ==
    /\ last_call.op = "call_tool"
    /\ last_call.tool_name = "sqlserver_query_work_orders"
    /\ last_call.handled.kind = "ok"
    /\ Arg(last_call.arguments, "limit", 50) > 20
    /\ Len(last_call.ret.result.data.work_orders) = 20
    /\ last_call.ret.result.data.count = 20

\* a known equipment id and tag, start and end among the timestamps of
\* IsoTable, and no interval_seconds or one of whole minutes
TimeseriesArgs ==
    LET base == {[equipment_id |-> "CNC-Machine-1", tag_name |-> "Temperature",
                  start_time |-> st, end_time |-> en] :
                    st \in Range(IsoTable), en \in Range(IsoTable)}
    IN  base \cup {With(a, "interval_seconds", 60 * k) :
                      a \in base, k \in 1..MaxMinutes}

\* server.call_tool("highbyte_query_timeseries", a)
QueryTimeseries(a, rnd) ==
    /\ "highbyte_query_timeseries" \in Range(Keys(tools))
    /\ CallTool("highbyte_query_timeseries", a, rnd)

\* each behaviour makes one call
NextHandlers ==
    /\ last_call = NoCall
    /\ \/ \E a \in WorkOrderArgs, rnd \in 0..MaxDraw : QueryWorkOrders(a, rnd)
       \/ \E a \in TimeseriesArgs, rnd \in 0..MaxDraw :
             QueryTimeseries(a, rnd)

SpecHandlers == Init /\ [][NextHandlers]_vars

\* seconds between two timestamps of a returned series
SecondsBetween(earlier, later) ==
    fromisoformat(later)[1] - fromisoformat(earlier)[1]

\* C22: a time-series query over a known equipment id and tag, with
\* end >= start and interval > 0, returns floor((end - start) / interval) + 1
\* points (6 for the five minutes from 00:00:00 to 00:05:00 at 60 s): the
\* first is stamped with the start timestamp, consecutive points are exactly
\* interval seconds apart, and count is the number of points.
C22_OnePointPerInterval ==
    (/\ last_call.op = "call_tool"
     /\ last_call.tool_name = "highbyte_query_timeseries"
     /\ last_call.handled.kind = "ok")
    => LET a == last_call.arguments
           interval == Arg(a, "interval_seconds", 60)
           start_dt == fromisoformat(a.start_time)[1]
           end_dt == fromisoformat(a.end_time)[1]
           data == last_call.ret.result.data
           pts == data.data_points
       IN  /\ last_call.ret.outcome = "return"
           /\ data.count = Len(pts)
           /\ (end_dt >= start_dt /\ interval > 0)
              => /\ Len(pts) = ((end_dt - start_dt) \div interval) + 1
                 /\ pts[1].timestamp = a.start_time
                 /\ \A i \in 1..(Len(pts) - 1) :
                       SecondsBetween(pts[i].timestamp, pts[i + 1].timestamp)
                          = interval
           /\ (/\ a.start_time = "2024-01-01T00:00:00"
               /\ a.end_time = "2024-01-01T00:05:00"
               /\ interval = 60)
              => Len(pts) = 6

\* the five minutes from 00:00:00 at 60 s gave six points, the last one
\* stamped with the end timestamp
C22_Witness ==
    /\ last_call.op = "call_tool"
    /\ last_call.tool_name = "highbyte_query_timeseries"
    /\ last_call.handled.kind = "ok"
    /\ last_call.arguments.start_time = "2024-01-01T00:00:00"
    /\ last_call.arguments.end_time = "2024-01-01T00:05:00"
    /\ Arg(last_call.arguments, "interval_seconds", 60) = 60
    /\ last_call.ret.result.data.count = 6
    /\ last_call.ret.result.data.data_points[6].timestamp
          = "2024-01-01T00:05:00"

-----------------------------------------------------------------------------
(***************************************************************************)
(* Validation in the handlers (Spec).                                      *)
(***************************************************************************)
\* the last call was server.call_tool of a registered tool of the equipment
\* backend with arguments that bind to the handler's parameters
EquipmentCall(handlers) ==
    /\ last_call.op = "call_tool"
    /\ last_call.tool_name \in Range(Keys(last_call.before))
    /\ LET handler == Lookup(last_call.before, last_call.tool_name).handler
       IN  /\ handler \in handlers
           /\ BindError(handler_params(handler)[1], handler_params(handler)[2],
                        last_call.arguments).kind = "ok"

\* call_tool returned a failure dict for a ValueError with this message,
\* and the dict holds no data
FailedWith(text, name) ==
    /\ last_call.ret.outcome = "return"
    /\ last_call.ret.result.success = FALSE
    /\ "data" \notin DOMAIN last_call.ret.result
    /\ last_call.ret.result.error_type = "ValueError"
    /\ last_call.ret.result.error.text = text
    /\ last_call.ret.result.error.name = name

\* C23: on the equipment backend, get_realtime_data, query_timeseries and
\* get_equipment_status called with an equipment id outside the equipment
\* map fail with "Unknown equipment", and the first two called with a tag
\* the equipment does not have fail with "Unknown tag"; either failure is a
\* failed invocation result that call_tool returns, with no data in it.
C23_UnknownEquipmentOrTagFails ==
    /\ EquipmentCall({"_get_realtime_data", "_query_timeseries",
                      "_get_equipment_status"})
          => (last_call.arguments.equipment_id \notin DOMAIN equipment
                => FailedWith("Unknown equipment",
                              last_call.arguments.equipment_id))
    /\ EquipmentCall({"_get_realtime_data", "_query_timeseries"})
          => ((/\ last_call.arguments.equipment_id \in DOMAIN equipment
               /\ last_call.arguments.tag_name
                     \notin Range(equipment[last_call.arguments.equipment_id]))
                => FailedWith("Unknown tag for equipment",
                              last_call.arguments.tag_name))

\* a time-series query for a tag the equipment does not have was refused
C23_Witness ==
    /\ EquipmentCall({"_query_timeseries"})
    /\ last_call.arguments.equipment_id \in DOMAIN equipment
    /\ last_call.arguments.tag_name
          \notin Range(equipment[last_call.arguments.equipment_id])
    /\ FailedWith("Unknown tag for equipment", last_call.arguments.tag_name)

\* a status request for an equipment id outside the map was refused
C23_WitnessEquipment ==
    /\ EquipmentCall({"_get_equipment_status"})
    /\ last_call.arguments.equipment_id \notin DOMAIN equipment
    /\ FailedWith("Unknown equipment", last_call.arguments.equipment_id)

-----------------------------------------------------------------------------
(***************************************************************************)
(* The convenience function test_connection (SpecHelpers): it constructs   *)
(* a client of its own, so the client at hand is left alone.               *)
(***************************************************************************)
\* the function answers with the client's flag even when discovery raised
MutReportsFlag(response, net) ==
    [outcome |-> "return",
     value |-> discover_tools(<<>>, FALSE, response, net).is_connected]

\* test_connection(url, bearer_token): discover_tools on a new client, and
\* the except clause for the two error classes discover_tools raises
test_connection(response, net) ==
    LET r == discover_tools(<<>>, FALSE, response, net)
    IN  IF r.ret.outcome = "return"
        THEN [outcome |-> "return", value |-> r.is_connected]
        ELSE IF r.ret.exc.type \in {"HighByteConnectionError",
                                    "HighByteServerError"}
        THEN [outcome |-> "return", value |-> FALSE]
        ELSE [outcome |-> "raise", exc |-> r.ret.exc]

\* await test_connection(...)
TestConnection(response, net) ==
    LET r == discover_tools(<<>>, FALSE, response, net)
    IN  /\ last_remote' = [op |-> "test_connection",
                           response |-> response,
                           net |-> net,
                           discover |-> r.ret,
                           connected |-> r.is_connected,
                           ret |-> test_connection(response, net)]
        /\ UNCHANGED <<discovered_tools, is_connected, has_discovered,
                       cache_origin, mgr_server, last_discovery, now>>
        /\ UNCHANGED <<mockVars, taskVars>>

NextHelpers ==
    \E response \in Responses, net \in NetOutcomes("list_tools") :
        TestConnection(response, net)

SpecHelpers == InitRemote /\ [][NextHelpers]_vars

\* C24: test_connection lets no connection error or server error escape: it
\* returns True exactly when discover_tools returned and the client reports
\* connected, and returns False whenever discover_tools raised.
C24_TestConnectionNeverRaises ==
    last_remote.op = "test_connection"
    => /\ last_remote.ret.outcome = "return"
       /\ last_remote.ret.value = TRUE
             <=> (/\ last_remote.discover.outcome = "return"
                  /\ last_remote.connected)
       /\ last_remote.discover.outcome = "raise"
             => last_remote.ret.value = FALSE

\* discovery wrote the cache and the flag and then raised at teardown, and
\* test_connection returned False
C24_Witness ==
    /\ last_remote.op = "test_connection"
    /\ last_remote.discover.outcome = "raise"
    /\ last_remote.discover.exc.type = "HighByteServerError"
    /\ last_remote.connected
    /\ last_remote.ret = [outcome |-> "return", value |-> FALSE]

\* discovery returned and test_connection returned True
C24_WitnessSuccess ==
    /\ last_remote.op = "test_connection"
    /\ last_remote.discover.outcome = "return"
    /\ last_remote.ret = [outcome |-> "return", value |-> TRUE]

-----------------------------------------------------------------------------
(***************************************************************************)
(* Coroutines on one event loop.  A coroutine runs without interruption    *)
(* from one await on the network to the next; tasks[t].pc names the await  *)
(* at which task t is suspended.  Several callers share one manager        *)
(* (SpecManagerRace) or one client (SpecClientRace).                       *)
(***************************************************************************)
Suspend(t, frame_t) == tasks' = [tasks EXCEPT ![t] = frame_t]

\* the tasks other than t that are inside discover_tools
InFlight(t) ==
    Cardinality({u \in TaskIds \ {t} : tasks[u].pc = "discover"})

\* the manager lets one discovery run at a time: a caller that finds one in
\* flight does not start another
MutSingleFlight(needs, in_flight) == needs /\ in_flight = 0

\* `if needs_refresh: await self._server.discover_tools()`: the caller runs
\* discover_tools whenever its own needs_refresh is true
runs_discover(needs, in_flight) == needs

\* get_server(refresh) from its first line to the await inside
\* discover_tools, or to its return when no refresh is needed
GetServerBegin(t, refresh) ==
    LET created == ~mgr_server
        connected == IF created THEN FALSE ELSE is_connected
        current_time == now
        needs == needs_refresh(refresh, connected, current_time,
                               last_discovery)
        call == [refresh |-> refresh,
                 current_time |-> current_time,
                 connected |-> connected,
                 last_discovery |-> last_discovery]
    IN  /\ tasks[t].pc = "idle"
        /\ mgr_server' = TRUE
        /\ discovered_tools' = IF created THEN <<>> ELSE discovered_tools
        /\ is_connected' = connected
        /\ has_discovered' = IF created THEN FALSE ELSE has_discovered
        /\ cache_origin' = IF created THEN NoOrigin ELSE cache_origin
        /\ IF runs_discover(needs, InFlight(t))
           THEN /\ Suspend(t, [pc |-> "discover", call |-> call])
                /\ UNCHANGED last_remote
           ELSE /\ last_remote' = [op |-> "get_server", call |-> call,
                                   ran_discover |-> FALSE,
                                   outcome |-> "return"]
                /\ UNCHANGED tasks
        /\ UNCHANGED <<last_discovery, now, frame, mockVars>>

\* the rest of get_server: discover_tools gets its answer, writes the cache
\* and returns or raises, and a caller whose discovery returned stores the
\* time it read before the await
GetServerResume(t, response, net) ==
    LET r == discover_tools(discovered_tools, is_connected, response, net)
    IN  /\ tasks[t].pc = "discover"
        /\ ClientAfter(r, has_discovered, cache_origin, TRUE)
        /\ last_discovery' = IF r.ret.outcome = "return"
                             THEN <<tasks[t].call.current_time>>
                             ELSE last_discovery
        /\ last_remote' = [op |-> "get_server", call |-> tasks[t].call,
                           ran_discover |-> TRUE,
                           outcome |-> r.ret.outcome]
        /\ Suspend(t, Idle)
        /\ UNCHANGED <<mgr_server, now, frame, mockVars>>

\* what the discoveries of racing callers meet
RaceInputs ==
    {<<<<CHOOSE tool \in ServerTools : tool.name = "list_tags">>, NoNet>>,
     <<<<>>, [fail_at |-> "connect", error |-> "ConnectError"]>>}

\* callers of one manager; between their steps the cache may expire
NextManagerRace ==
    \/ \E t \in TaskIds, refresh \in BOOLEAN : GetServerBegin(t, refresh)
    \/ \E t \in TaskIds, in \in RaceInputs :
          GetServerResume(t, in[1], in[2])
    \/ Tick(cache_ttl + 1)

SpecManagerRace == InitRemote /\ [][NextManagerRace]_vars

\* needs_refresh as a get_server call evaluated it
Needed(call) ==
    needs_refresh(call.refresh, call.connected, call.current_time,
                  call.last_discovery)

\* the callers inside discover_tools that did not ask for a refresh
Discovering == {t \in TaskIds : tasks[t].pc = "discover" /\ ~tasks[t].call.refresh}

\* C25: the manager de-duplicates nothing: a get_server call runs
\* discover_tools exactly when its own needs_refresh is true, whatever
\* discoveries other callers have in flight, so that two concurrent callers
\* that find the cache never discovered or expired both run discover_tools.
C25_NoSingleFlight ==
    /\ \A t \in TaskIds : tasks[t].pc = "discover" => Needed(tasks[t].call)
    /\ last_remote.op = "get_server"
          => (last_remote.ran_discover <=> Needed(last_remote.call))

\* two callers without refresh are inside discover_tools at once on a
\* manager that has never discovered
C25_Witness ==
    /\ Cardinality(Discovering) >= 2
    /\ \A t \in Discovering : tasks[t].call.last_discovery = <<>>

\* two callers without refresh are inside discover_tools at once on a
\* connected manager whose cache has expired
C25_WitnessExpired ==
    /\ Cardinality(Discovering) >= 2
    /\ \A t \in Discovering :
          /\ tasks[t].call.connected
          /\ cache_expired(tasks[t].call.current_time,
                           tasks[t].call.last_discovery)

-----------------------------------------------------------------------------
(***************************************************************************)
(* The trend of analyze_quality_trends (Spec).                             *)
(***************************************************************************)
\* C26: for every window of days >= 1, analyze_quality_trends reports
\* "improving" exactly when the average defect rate of the trailing seven
\* days (of all days, when there are fewer than seven) is strictly below the
\* average over the whole window, and "worsening" otherwise.  Averages are
\* compared as fractions: sum_recent / n_recent < sum_all / n_all.
C26_TrendComparesAverages ==
    (/\ last_call.op = "call_tool"
     /\ last_call.tool_name = "teradata_analyze_quality_trends"
     /\ last_call.handled.kind = "ok")
    => LET daily_data == last_call.ret.result.data.daily_data
           trailing == LastSeven(daily_data)
           below == SumSeq(trailing) * Len(daily_data)
                       < SumSeq(daily_data) * Len(trailing)
       IN  last_call.ret.result.data.trend
              = IF below THEN "improving" ELSE "worsening"

-----------------------------------------------------------------------------
(***************************************************************************)
(* The while loop of _query_timeseries, one iteration per step             *)
(* (SpecLoop).  frame holds the locals of the running call: current_time,  *)
(* end_dt, interval_seconds and the length of data_points, the last kept   *)
(* modulo MaxPoints + 1, which is exact for every series that fits between *)
(* the timestamps of IsoTable.  The equipment id and the tag are known and *)
(* both timestamps parse, so that the call reaches the loop.               *)
(***************************************************************************)
\* the first instant a datetime can hold; current_time + timedelta raises
\* OverflowError below it
datetime_min == 0 - MaxPast

\* interval_seconds as a caller may give it: positive, zero or negative
IntervalChoices == {60 * k : k \in (0 - MaxMinutes)..MaxMinutes}

\* _query_timeseries from its first line to the first test of the loop
TimeseriesEnter(start_time, end_time, interval_seconds) ==
    /\ frame = Idle
    /\ "highbyte_query_timeseries" \in Range(Keys(tools))
    /\ fromisoformat(start_time) # <<>>
    /\ fromisoformat(end_time) # <<>>
    /\ frame' = [pc |-> "loop",
                 current_time |-> fromisoformat(start_time)[1],
                 end_dt |-> fromisoformat(end_time)[1],
                 interval_seconds |-> interval_seconds,
                 count |-> 0]
    /\ UNCHANGED <<mockVars, discovered_tools, is_connected, mgr_server,
                   last_discovery, now, has_discovered, cache_origin,
                   last_remote, tasks>>

\* one iteration: the test holds, a point is appended and current_time is
\* advanced by timedelta(seconds=interval_seconds)
TimeseriesStep ==
    /\ frame.pc = "loop"
    /\ frame.current_time <= frame.end_dt
    /\ frame' =
          IF frame.current_time + frame.interval_seconds < datetime_min
          THEN [pc |-> "raised", type |-> "OverflowError",
                count |-> (frame.count + 1) % (MaxPoints + 1)]
          ELSE [frame EXCEPT
                  !.current_time = frame.current_time + frame.interval_seconds,
                  !.count = (frame.count + 1) % (MaxPoints + 1)]
    /\ UNCHANGED <<mockVars, discovered_tools, is_connected, mgr_server,
                   last_discovery, now, has_discovered, cache_origin,
                   last_remote, tasks>>

\* the test fails and the handler returns its dict
TimeseriesReturn ==
    /\ frame.pc = "loop"
    /\ frame.current_time > frame.end_dt
    /\ frame' = [pc |-> "returned", count |-> frame.count]
    /\ UNCHANGED <<mockVars, discovered_tools, is_connected, mgr_server,
                   last_discovery, now, has_discovered, cache_origin,
                   last_remote, tasks>>

NextLoop ==
    \/ \E start_time \in Range(IsoTable), end_time \in Range(IsoTable),
          interval_seconds \in IntervalChoices :
          TimeseriesEnter(start_time, end_time, interval_seconds)
    \/ TimeseriesStep
    \/ TimeseriesReturn

\* a running handler keeps running: nothing else is scheduled
SpecLoop == InitRemote /\ [][NextLoop]_vars /\ WF_vars(NextLoop)

\* C27: every time-series query with parseable timestamps ends, by
\* returning or by raising, whatever integer interval_seconds is, zero and
\* negative intervals included.
C27_TimeseriesTerminates ==
    (frame.pc = "loop") ~> (frame.pc \in {"returned", "raised"})

\* the queries with a positive interval end
C27_PositiveIntervalTerminates ==
    (frame.pc = "loop" /\ frame.interval_seconds > 0)
        ~> (frame.pc = "returned")

-----------------------------------------------------------------------------
(***************************************************************************)
(* call_tool and discover_tools as coroutines on one client                *)
(* (SpecClientRace).  call_tool checks the name, then awaits the           *)
(* connection and the handshake (pc "connect"), then sends its request     *)
(* and awaits the answer (pc "request").  discover_tools awaits up to the  *)
(* answer of list_tools (pc "list_tools") and writes the cache when it     *)
(* resumes.                                                                *)
(***************************************************************************)
\* call_tool(tool_name, arguments) from its first line to its first await:
\* the existence check
CallBegin(t, tool_name) ==
    /\ tasks[t].pc = "idle"
    /\ IF known_tool(discovered_tools, tool_name)
       THEN /\ Suspend(t, [pc |-> "connect", tool_name |-> tool_name])
            /\ UNCHANGED last_remote
       ELSE /\ last_remote' =
                  [op |-> "call_tool", tool_name |-> tool_name,
                   sent |-> FALSE, listed_when_sent |-> FALSE,
                   ret |-> remote_call_tool(discovered_tools, tool_name,
                                            <<>>, NoNet).ret]
            /\ UNCHANGED tasks
    /\ UNCHANGED <<discovered_tools, is_connected, has_discovered,
                   cache_origin, mgr_server, last_discovery, now, frame,
                   mockVars>>

\* `result = await session.call_tool(tool_name, arguments)`: the request
\* leaves for the server
CallSend(t) ==
    /\ tasks[t].pc = "connect"
    /\ Suspend(t, [pc |-> "request",
                    tool_name |-> tasks[t].tool_name,
                    listed_when_sent |->
                        known_tool(discovered_tools, tasks[t].tool_name)])
    /\ UNCHANGED <<discovered_tools, is_connected, has_discovered,
                   cache_origin, mgr_server, last_discovery, now, frame,
                   last_remote, mockVars>>

\* the call ends: the answer arrives, or the library raises at stage
\* net.fail_at, before the request when the task has not sent it yet
CallEnd(t, content, net) ==
    LET sent == tasks[t].pc = "request"
    IN  /\ tasks[t].pc \in {"connect", "request"}
        /\ IF sent
           THEN net.fail_at \in {"none", "call_tool", "session_exit",
                                 "transport_exit"}
           ELSE net.fail_at \in {"connect", "session", "initialize"}
        /\ last_remote' =
              [op |-> "call_tool", tool_name |-> tasks[t].tool_name,
               sent |-> sent,
               listed_when_sent |-> sent /\ tasks[t].listed_when_sent,
               ret |-> IF net.fail_at = "none"
                       THEN [outcome |-> "return",
                             value |-> [success |-> TRUE,
                                        content |-> map_content(content)]]
                       ELSE [outcome |-> "raise",
                             exc |-> call_error(net.error)]]
        /\ Suspend(t, Idle)
        /\ UNCHANGED <<discovered_tools, is_connected, has_discovered,
                       cache_origin, mgr_server, last_discovery, now, frame,
                       mockVars>>

\* discover_tools from its first line to `await session.list_tools()`
DiscoverBegin(t) ==
    /\ tasks[t].pc = "idle"
    /\ Suspend(t, [pc |-> "list_tools"])
    /\ UNCHANGED <<discovered_tools, is_connected, has_discovered,
                   cache_origin, mgr_server, last_discovery, now, frame,
                   last_remote, mockVars>>

\* the rest of discover_tools: the cache is cleared and filled from the
\* response in one run, or the library has raised
DiscoverResume(t, response, net) ==
    LET r == discover_tools(discovered_tools, is_connected, response, net)
    IN  /\ tasks[t].pc = "list_tools"
        /\ ClientAfter(r, has_discovered, cache_origin, FALSE)
        /\ last_remote' = [op |-> "discover_tools", ret |-> r.ret]
        /\ Suspend(t, Idle)
        /\ UNCHANGED <<mgr_server, last_discovery, now, frame, mockVars>>

\* what the server lists from one discovery to the next
RaceResponses == {r \in Responses : Len(r) = 1}

\* how the racing calls may end
RaceNets ==
    {NoNet, [fail_at |-> "connect", error |-> "ConnectError"],
     [fail_at |-> "call_tool", error |-> "Other"]}

NextClientRace ==
    \/ \E t \in TaskIds, tool_name \in RemoteToolNames :
          CallBegin(t, tool_name)
    \/ \E t \in TaskIds : CallSend(t)
    \/ \E t \in TaskIds, net \in RaceNets : CallEnd(t, <<"text">>, net)
    \/ \E t \in TaskIds : DiscoverBegin(t)
    \/ \E t \in TaskIds, response \in RaceResponses :
          DiscoverResume(t, response, NoNet)

SpecClientRace == InitRemote /\ [][NextClientRace]_vars

\* C28: with call_tool and discover_tools running as coroutines on one
\* client, a call request leaves only for a tool name that is in the cache
\* at the moment it leaves: no discovery that completes between call_tool's
\* existence check and its request makes call_tool invoke a tool the
\* latest discovery does not list.
C28_RequestOnlyForListedTool ==
    \A t \in TaskIds :
        tasks[t].pc = "request" => tasks[t].listed_when_sent

\* what the code does guarantee: the name was in the cache when the call
\* began, and a name that was not is refused without a request
C28_RequestOnlyForCheckedTool ==
    /\ \A t \in TaskIds :
          tasks[t].pc \in {"connect", "request"}
             => tasks[t].tool_name \in RemoteToolNames \ {UnknownToolName}
    /\ (last_remote.op = "call_tool" /\ last_remote.ret.outcome = "raise"
           /\ last_remote.ret.exc.type = "ValueError")
          => ~last_remote.sent

-----------------------------------------------------------------------------
(***************************************************************************)
(* The ticket list and the ticket counter of a transactional backend       *)
(* (Spec).                                                                 *)
(***************************************************************************)
\* what call_tool answered was a created ticket
CreatedTicket(ret) ==
    /\ ret.outcome = "return"
    /\ ret.result.success
    /\ "ticket" \in DOMAIN ret.result.data

\* the list holds MT-1000, MT-1001, ... in this order, one per count of the
\* counter
TicketsFollowCounter ==
    /\ Len(maintenance_tickets) = next_ticket_id - FirstTicketId
    /\ \A i \in 1..Len(maintenance_tickets) :
          maintenance_tickets[i].ticket_id
             = [prefix |-> "MT-", number |-> FirstTicketId + i - 1]

\* this step appended one ticket, the one `ret` carries, and counted it
AppendedOne(ret) ==
    /\ CreatedTicket(ret)
    /\ maintenance_tickets'
          = Append(maintenance_tickets, ret.result.data.ticket)
    /\ ret.result.data.ticket.ticket_id
          = [prefix |-> "MT-", number |-> next_ticket_id]
    /\ next_ticket_id' = next_ticket_id + 1

\* the call this step made on the backend, directly or through the bridge:
\* <<>> when the step made none that left a new record
StepCall ==
    IF last_call' # last_call THEN <<last_call'.ret>>
    ELSE IF last_bridge' # last_bridge /\ last_bridge'.server # "double"
    THEN <<last_bridge'.called>>
    ELSE <<>>

\* what a step may do to the list and the counter
TicketStep ==
    /\ (\/ maintenance_tickets' # maintenance_tickets
        \/ next_ticket_id' # next_ticket_id)
          => (StepCall # <<>> /\ AppendedOne(StepCall[1]))
    /\ (StepCall # <<>> /\ CreatedTicket(StepCall[1]))
          => AppendedOne(StepCall[1])
    /\ (StepCall # <<>> /\ ~CreatedTicket(StepCall[1]))
          => UNCHANGED <<maintenance_tickets, next_ticket_id>>

\* C29: on a transactional backend the number of stored tickets is the
\* counter minus 1000 and the stored ids are MT-1000 .. MT-(counter - 1) in
\* creation order, in every reachable state; a successful
\* create_maintenance_ticket appends one ticket and adds one to the counter,
\* and nothing else changes either: a rejected creation and every query
\* leave both as they were.
C29_TicketsAndCounter ==
    []TicketsFollowCounter /\ [][TicketStep]_vars

\* two tickets are stored, the counter stands at 1002, and the last call
\* was a creation that was rejected
C29_Witness ==
    /\ Len(maintenance_tickets) = 2
    /\ next_ticket_id = FirstTicketId + 2
    /\ last_call.op = "call_tool"
    /\ last_call.tool_name = "sqlserver_create_maintenance_ticket"
    /\ last_call.ret.outcome = "return"
    /\ ~last_call.ret.result.success

-----------------------------------------------------------------------------
(***************************************************************************)
(* A failed discovery and the next get_server (SpecManager).               *)
(***************************************************************************)
\* the call that led to this state was a get_server or refresh_tools that
\* raised what its discover_tools raised
GetServerRaised ==
    /\ last_remote.op \in {"get_server", "refresh_tools"}
    /\ last_remote.ran_discover
    /\ last_remote.ret.outcome = "raise"

\* this step is a get_server call without refresh
PlainGetServer ==
    /\ last_remote'.op = "get_server"
    /\ ~last_remote'.refresh

\* C30: the manager never takes a failed discovery for a fresh one: when a
\* get_server call has raised because discover_tools failed, a failed
\* forced refresh on a connected client included, the get_server call
\* without refresh that comes next runs discover_tools again.
C30_FailedDiscoveryNotFresh ==
    [][(GetServerRaised /\ PlainGetServer) => last_remote'.ran_discover]_vars

\* what holds in the code: a failure leaves _last_discovery as it was, so
\* the next plain get_server discovers again when the manager has never
\* stored a discovery time
C30_FailedFirstDiscoveryNotFresh ==
    [][(GetServerRaised /\ last_discovery = <<>> /\ PlainGetServer)
          => last_remote'.ran_discover]_vars

====
